---------------------------- MODULE Spec2Model ----------------------------
(***************************************************************************)
(* EvoLoop round controller (workflow_graph.py), its evaluation stage      *)
(* (evaluation_agent.py), the Model Guardian (model_guardian.py) and the   *)
(* Data Quality Gate (data_quality_gate.py).                               *)
(*                                                                         *)
(* Numbers: every metric the code holds as a float in [0,1] (mAP50,        *)
(* precision, recall, per-class AP, quality scores) and every loss is an   *)
(* integer count of thousandths.  Thresholds the code compares a ratio     *)
(* against are percentages, and the comparison is cross-multiplied.        *)
(***************************************************************************)
EXTENDS Integers, Sequences, FiniteSets, TLC

\* ------------------------------------------------------------------ bounds
\* largest max_rounds a caller passes in the initial state
MaxRoundsBound == 2
\* most images one crawl returns
MaxCrawl == 1
\* most images uploaded with the job
MaxUploaded == 2
\* most stage failures (raised exceptions, failed executor runs) in one job
MaxFaults == 2

\* ------------------------------------------------------- program constants
\* workflow_graph.py
DEFAULT_MAX_ROUNDS == 5
\* evaluation_agent.py (thousandths, or percent for ratios)
MAP50_IMPROVEMENT_THRESHOLD == 5
MAP50_DEGRADATION_WARNING == -20
MAP50_DEGRADATION_CRITICAL == -50
OVERFITTING_GAP_THRESHOLD == 20
MAX_ROUNDS_WITHOUT_IMPROVEMENT == 2
FORGETTING_THRESHOLD == -10
HOLDOUT_RATIO == 15
SEED_PATHS == 10
\* model_guardian.py, class ModelGuardian
G_MAP50_DEGRADATION_WARNING == -20
G_MAP50_DEGRADATION_CRITICAL == -50
VAL_LOSS_INCREASE_WARNING == 10
VAL_LOSS_INCREASE_CRITICAL == 25
OVERFITTING_GAP_WARNING == 15
OVERFITTING_GAP_CRITICAL == 25
CALIBRATION_ECE_WARNING == 100
CALIBRATION_ECE_CRITICAL == 200
FORGETTING_PER_CLASS_THRESHOLD == -10
FORGETTING_MAX_AFFECTED_CLASSES == 2
MEANINGFUL_IMPROVEMENT == 5
GUARDIAN_MAX_STALE_ROUNDS == 3
\* data_quality_gate.py, class DataQualityGate
MIN_SAMPLE_COUNT == 10
MIN_QUALITY_SCORE == 400
MAX_CLASS_IMBALANCE_RATIO == 10
MIN_DIVERSITY_SCORE == 300
MAX_DUPLICATE_RATIO == 20
\* training_agent.py
DEFAULT_EPOCHS == 100
DEFAULT_IMG_SIZE == 640

\* Optional[int] fields of AgentState that are not set
None == -1

Abs(x) == IF x < 0 THEN -x ELSE x
Max2(a, b) == IF a >= b THEN a ELSE b
Min2(a, b) == IF a <= b THEN a ELSE b

RECURSIVE SumSeq(_)
SumSeq(s) == IF s = <<>> THEN 0 ELSE Head(s) + SumSeq(Tail(s))

\* ------------------------------------------------------------------ metrics
Classes == {"a", "b", "c"}

\* the dict {} : every .get falls back to its default
EmptyDict ==
    [empty |-> TRUE, mAP50 |-> 0, mAP50_95 |-> 0, precision |-> 0, recall |-> 0,
     val_loss |-> 0, train_loss |-> 0, per_class |-> <<>>]

\* EvaluationAgent._empty_metrics
_empty_metrics ==
    [empty |-> FALSE, mAP50 |-> 0, mAP50_95 |-> 0, precision |-> 0, recall |-> 0,
     val_loss |-> 0, train_loss |-> 0, per_class |-> <<>>]

Metrics(m, p, vl, tl, pc) ==
    [empty |-> FALSE, mAP50 |-> m, mAP50_95 |-> m \div 2, precision |-> p, recall |-> p,
     val_loss |-> vl, train_loss |-> tl, per_class |-> pc]

PerClass(a, b, c) == [k \in Classes |-> IF k = "a" THEN a ELSE IF k = "b" THEN b ELSE c]

\* metric records handed to the comparison, the decision and the guardian
MetricSamples ==
    { Metrics(500, 500, 1000, 950, PerClass(500, 500, 500)),   \* baseline
      Metrics(505, 500, 1000, 950, PerClass(500, 500, 500)),   \* +0.005
      Metrics(504, 500, 1000, 950, PerClass(500, 500, 500)),   \* +0.004
      Metrics(480, 500, 1000, 950, PerClass(500, 500, 500)),   \* -0.02
      Metrics(440, 500, 1000, 950, PerClass(500, 500, 500)),   \* -0.06
      Metrics(500, 500, 1300, 1250, PerClass(500, 500, 500)),  \* val_loss +30%
      Metrics(500, 500, 1000, 700, PerClass(500, 500, 500)),   \* overfitting gap 43%
      Metrics(500, 950, 1000, 950, PerClass(500, 500, 500)),   \* ECE estimate 0.225
      Metrics(500, 500, 1000, 950, PerClass(400, 500, 500)),   \* 1 class forgotten
      Metrics(500, 500, 1000, 950, PerClass(400, 400, 500)),   \* 2 classes forgotten
      Metrics(500, 500, 1000, 950, PerClass(400, 400, 400)),   \* 3 classes forgotten
      Metrics(480, 500, 1000, 950, PerClass(400, 400, 400)),   \* -0.02, 3 forgotten
      Metrics(0, 0, 0, 0, <<>>) }                              \* ran, found nothing

\* what the prediction executor can report for a trained model
ExecutorResults ==
    { Metrics(500, 500, 1000, 950, <<>>),    \* baseline
      Metrics(505, 500, 1000, 950, <<>>),    \* +0.005
      Metrics(504, 500, 1000, 950, <<>>),    \* +0.004
      Metrics(480, 500, 1000, 950, <<>>),    \* -0.02
      Metrics(440, 500, 1000, 950, <<>>),    \* -0.06
      Metrics(500, 500, 1300, 1250, <<>>),   \* val_loss +30%
      Metrics(500, 500, 1000, 700, <<>>),    \* overfitting gap 43%
      Metrics(0, 0, 0, 0, <<>>) }            \* ran, found nothing

\* ------------------------------------------------- EvaluationAgent (pure)
\* `not d` for a metrics dict
IsFalsyDict(d) == d.empty

\* EvaluationAgent._compare_with_best
_compare_with_best(current, best) ==
    IF IsFalsyDict(best) \/ best.mAP50 = 0
    THEN [is_first_round |-> TRUE, is_improved |-> TRUE, severity |-> "none",
          mAP50_delta |-> 0]
    ELSE LET mAP50_delta == current.mAP50 - best.mAP50
             is_improved == mAP50_delta >= MAP50_IMPROVEMENT_THRESHOLD
             severity == IF mAP50_delta <= MAP50_DEGRADATION_CRITICAL THEN "critical"
                         ELSE IF mAP50_delta <= MAP50_DEGRADATION_WARNING THEN "warning"
                         ELSE IF is_improved THEN "improved"
                         ELSE "normal"
         IN [is_first_round |-> FALSE, is_improved |-> is_improved,
             severity |-> severity, mAP50_delta |-> mAP50_delta]

\* EvaluationAgent._compute_calibration_metrics (ece, mce in thousandths, halves dropped)
_compute_calibration_metrics(metrics) ==
    LET ece2 == IF metrics.precision > 0 /\ metrics.mAP50 > 0
                THEN Abs(metrics.precision - metrics.mAP50) ELSE 0
        mce2 == IF metrics.precision > 0 /\ metrics.mAP50 > 0
                THEN Max2(Abs(metrics.precision - metrics.mAP50),
                          Abs(metrics.recall - metrics.mAP50))
                ELSE 0
    IN [ece |-> ece2 \div 2, mce |-> mce2 \div 2]

\* EvaluationAgent._detect_overfitting
_detect_overfitting(metrics) ==
    IF metrics.train_loss <= 0 \/ metrics.val_loss <= 0
    THEN [detected |-> FALSE]
    ELSE [detected |-> (metrics.val_loss - metrics.train_loss) * 100
                          > OVERFITTING_GAP_THRESHOLD * metrics.train_loss]

\* dict.get(class_name, {}).get("ap", 0)
ApOf(per_class, cls) == IF cls \in DOMAIN per_class THEN per_class[cls] ELSE 0

\* EvaluationAgent._detect_catastrophic_forgetting
_detect_catastrophic_forgetting(current_per_class, best_per_class) ==
    IF DOMAIN current_per_class = {} \/ DOMAIN best_per_class = {}
    THEN [detected |-> FALSE, affected_classes |-> {}, num_affected |-> 0]
    ELSE LET affected ==
                 { c \in DOMAIN best_per_class :
                     /\ best_per_class[c] > 0
                     /\ (ApOf(current_per_class, c) - best_per_class[c]) * 100
                            < FORGETTING_THRESHOLD * best_per_class[c] }
         IN [detected |-> affected # {}, affected_classes |-> affected,
             num_affected |-> Cardinality(affected)]

\* variant: a decision dict whose should_continue is always True
DecisionKeepGoing(cont, rollback, action, reason) ==
    [empty |-> FALSE, should_continue |-> TRUE, should_rollback |-> rollback,
     action |-> action, reason |-> reason]

Decision(cont, rollback, action, reason) ==
    [empty |-> FALSE, should_continue |-> cont, should_rollback |-> rollback,
     action |-> action, reason |-> reason]

\* the dict {} as a continuation decision
EmptyDecision ==
    [empty |-> TRUE, should_continue |-> FALSE, should_rollback |-> FALSE,
     action |-> "", reason |-> ""]

\* variant: an improved round continues before the stale-round count is read
_make_continuation_decision_improved_first(comparison, calibration, overfitting, forgetting, round_number, rounds_without_improvement) ==
    IF comparison.severity = "critical"
    THEN Decision(FALSE, TRUE, "rollback", "Critical degradation")
    ELSE IF forgetting.detected /\ forgetting.num_affected >= 2
    THEN Decision(FALSE, TRUE, "rollback", "Catastrophic forgetting")
    ELSE IF overfitting.detected
    THEN Decision(FALSE, FALSE, "stop", "Overfitting detected")
    ELSE IF comparison.is_improved
    THEN Decision(TRUE, FALSE, "continue", "Model improved")
    ELSE IF rounds_without_improvement >= MAX_ROUNDS_WITHOUT_IMPROVEMENT
    THEN Decision(FALSE, FALSE, "stop", "No improvement")
    ELSE IF comparison.severity = "warning"
    THEN Decision(TRUE, FALSE, "continue_cautious", "Minor degradation detected")
    ELSE IF comparison.is_first_round
    THEN Decision(TRUE, FALSE, "continue", "First round baseline established")
    ELSE Decision(TRUE, FALSE, "continue", "Metrics stable")

\* EvaluationAgent._make_continuation_decision
_make_continuation_decision(comparison, calibration, overfitting, forgetting, round_number, rounds_without_improvement) ==
    IF comparison.severity = "critical"
    THEN Decision(FALSE, TRUE, "rollback", "Critical degradation")
    ELSE IF forgetting.detected /\ forgetting.num_affected >= 2
    THEN Decision(FALSE, TRUE, "rollback", "Catastrophic forgetting")
    ELSE IF overfitting.detected
    THEN Decision(FALSE, FALSE, "stop", "Overfitting detected")
    ELSE IF rounds_without_improvement >= MAX_ROUNDS_WITHOUT_IMPROVEMENT
    THEN Decision(FALSE, FALSE, "stop", "No improvement")
    ELSE IF comparison.severity = "warning"
    THEN Decision(TRUE, FALSE, "continue_cautious", "Minor degradation detected")
    ELSE IF comparison.is_improved
    THEN Decision(TRUE, FALSE, "continue", "Model improved")
    ELSE IF comparison.is_first_round
    THEN Decision(TRUE, FALSE, "continue", "First round baseline established")
    ELSE Decision(TRUE, FALSE, "continue", "Metrics stable")

\* ------------------------------------------------------------ holdout set
RemoveAt(s, i) == [j \in 1..(Len(s) - 1) |-> IF j < i THEN s[j] ELSE s[j + 1]]

SortedPaths(paths) == SortSeq(paths, LAMBDA x, y : x < y)

\* int(hashlib.md5("|".join(sorted_images[:10])).hexdigest()[:8], 16): a
\* number fixed by the first ten sorted paths
SeedOf(sorted_images) ==
    LET n == Min2(SEED_PATHS, Len(sorted_images))
    IN SumSeq([i \in 1..n |-> i * sorted_images[i]]) % 64

\* random.Random(seed).sample(population, k): k draws without replacement,
\* each fixed by the generator state
RECURSIVE RngSample(_, _, _)
RngSample(population, k, seed) ==
    IF k = 0 \/ population = <<>> THEN <<>>
    ELSE LET i == (seed % Len(population)) + 1
         IN <<population[i]>> \o
            RngSample(RemoveAt(population, i), k - 1, (seed * 5 + 3) % 64)

\* _setup_holdout_set sampling the list as given, without sorted(all_images)
_setup_holdout_set_unsorted(all_images) ==
    IF all_images = <<>> THEN <<>>
    ELSE LET holdout_count == Max2(1, (Len(all_images) * HOLDOUT_RATIO) \div 100)
         IN RngSample(all_images, Min2(holdout_count, Len(all_images)),
                      SeedOf(all_images))

\* EvaluationAgent._setup_holdout_set with holdout_ratio = 0.15
_setup_holdout_set(all_images) ==
    IF all_images = <<>> THEN <<>>
    ELSE LET sorted_images == SortedPaths(all_images)
             holdout_count == Max2(1, (Len(sorted_images) * HOLDOUT_RATIO) \div 100)
         IN RngSample(sorted_images, Min2(holdout_count, Len(sorted_images)),
                      SeedOf(sorted_images))

\* EvaluationAgent._compute_set_hash: SHA-256 of "|".join(sorted(paths)),
\* held as the digest's preimage
_compute_set_hash(image_paths) ==
    [algo |-> "sha256", content |-> SortedPaths(image_paths)]

\* validation_set_hash not set
NoHash == [algo |-> "none", content |-> <<>>]


\* ------------------------------------------------------------ ModelGuardian
HealthCheck(name, passed, severity) ==
    [name |-> name, passed |-> passed, severity |-> severity]

\* ModelGuardian._check_map_degradation
_check_map_degradation(current, best) ==
    IF best.mAP50 = 0
    THEN HealthCheck("map_degradation", TRUE, "healthy")
    ELSE LET delta == current.mAP50 - best.mAP50
         IN IF delta <= G_MAP50_DEGRADATION_CRITICAL
            THEN HealthCheck("map_degradation", FALSE, "critical")
            ELSE IF delta <= G_MAP50_DEGRADATION_WARNING
            THEN HealthCheck("map_degradation", FALSE, "warning")
            ELSE HealthCheck("map_degradation", TRUE, "healthy")

\* ModelGuardian._check_val_loss
_check_val_loss(current, best) ==
    IF best.val_loss <= 0 \/ current.val_loss <= 0
    THEN HealthCheck("val_loss", TRUE, "healthy")
    ELSE LET increase == (current.val_loss - best.val_loss) * 100
         IN IF increase >= VAL_LOSS_INCREASE_CRITICAL * best.val_loss
            THEN HealthCheck("val_loss", FALSE, "critical")
            ELSE IF increase >= VAL_LOSS_INCREASE_WARNING * best.val_loss
            THEN HealthCheck("val_loss", FALSE, "warning")
            ELSE HealthCheck("val_loss", TRUE, "healthy")

\* ModelGuardian._check_overfitting
_check_overfitting(metrics) ==
    IF metrics.train_loss <= 0 \/ metrics.val_loss <= 0
    THEN HealthCheck("overfitting", TRUE, "healthy")
    ELSE LET gap == (metrics.val_loss - metrics.train_loss) * 100
         IN IF gap >= OVERFITTING_GAP_CRITICAL * metrics.train_loss
            THEN HealthCheck("overfitting", FALSE, "critical")
            ELSE IF gap >= OVERFITTING_GAP_WARNING * metrics.train_loss
            THEN HealthCheck("overfitting", FALSE, "warning")
            ELSE HealthCheck("overfitting", TRUE, "healthy")

\* ModelGuardian._check_calibration: ece_estimate = abs(precision - mAP50) * 0.5
_check_calibration(metrics) ==
    IF metrics.precision <= 0 \/ metrics.mAP50 <= 0
    THEN HealthCheck("calibration", TRUE, "healthy")
    ELSE LET twice_ece == Abs(metrics.precision - metrics.mAP50)
         IN IF twice_ece >= 2 * CALIBRATION_ECE_CRITICAL
            THEN HealthCheck("calibration", FALSE, "critical")
            ELSE IF twice_ece >= 2 * CALIBRATION_ECE_WARNING
            THEN HealthCheck("calibration", FALSE, "warning")
            ELSE HealthCheck("calibration", TRUE, "healthy")

\* ModelGuardian._check_catastrophic_forgetting
_check_catastrophic_forgetting(current, best) ==
    IF DOMAIN current.per_class = {} \/ DOMAIN best.per_class = {}
    THEN HealthCheck("catastrophic_forgetting", TRUE, "healthy")
    ELSE LET affected ==
                 { c \in DOMAIN best.per_class :
                     /\ best.per_class[c] > 0
                     /\ (ApOf(current.per_class, c) - best.per_class[c]) * 100
                            < FORGETTING_PER_CLASS_THRESHOLD * best.per_class[c] }
         IN IF Cardinality(affected) > FORGETTING_MAX_AFFECTED_CLASSES
            THEN HealthCheck("catastrophic_forgetting", FALSE, "critical")
            ELSE IF Cardinality(affected) > 0
            THEN HealthCheck("catastrophic_forgetting", FALSE, "warning")
            ELSE HealthCheck("catastrophic_forgetting", TRUE, "healthy")

\* next((c for c in checks if c.name == name), None) and not c.passed
CheckFailed(checks, name) ==
    \E i \in 1..Len(checks) :
        /\ checks[i].name = name
        /\ \A j \in 1..(i - 1) : checks[j].name # name
        /\ ~checks[i].passed

\* ModelGuardian._generate_recommendation
_generate_recommendation(checks, is_improved, is_overfitting, should_rollback) ==
    IF should_rollback THEN "ROLLBACK RECOMMENDED"
    ELSE IF is_overfitting THEN "STOP RECOMMENDED"
    ELSE IF is_improved THEN "CONTINUE"
    ELSE IF \E i \in 1..Len(checks) : checks[i].severity = "warning" THEN "CAUTION"
    ELSE "STABLE"

\* variant: a rollback verdict that does not look at the round
ShouldRollbackAnyRound(has_critical, round_number) == has_critical

\* should_rollback of ModelGuardian.check_model_health
ShouldRollback(has_critical, round_number) == has_critical /\ round_number > 1

\* model_health_report not set
EmptyReport ==
    [empty |-> TRUE, is_healthy |-> FALSE, should_rollback |-> FALSE,
     is_improved |-> FALSE, is_overfitting |-> FALSE, has_forgetting |-> FALSE,
     can_improve_further |-> FALSE, overall_severity |-> "", checks |-> <<>>,
     recommendation |-> ""]

\* variant: the severity of the first check that is not healthy
OverallSeverityOfFirst(checks) ==
    LET found == SelectSeq(checks, LAMBDA c : c.severity \in { "critical", "warning" })
    IN IF found = <<>> THEN "healthy" ELSE found[1].severity

\* check_model_health, "Overall severity"
OverallSeverity(checks) ==
    IF \E i \in 1..Len(checks) : checks[i].severity = "critical" THEN "critical"
    ELSE IF \E i \in 1..Len(checks) : checks[i].severity = "warning" THEN "warning"
    ELSE "healthy"

\* ModelGuardian.check_model_health
check_model_health(current_metrics, best_metrics, round_number, rounds_without_improvement) ==
    LET checks == << _check_map_degradation(current_metrics, best_metrics),
                     _check_val_loss(current_metrics, best_metrics),
                     _check_overfitting(current_metrics),
                     _check_calibration(current_metrics),
                     _check_catastrophic_forgetting(current_metrics, best_metrics) >>
        has_critical == \E i \in 1..Len(checks) : checks[i].severity = "critical"
        has_warning == \E i \in 1..Len(checks) : checks[i].severity = "warning"
        all_passed == \A i \in 1..Len(checks) : checks[i].passed
        mAP50_delta == IF best_metrics.mAP50 # 0
                       THEN current_metrics.mAP50 - best_metrics.mAP50 ELSE 0
        is_improved == mAP50_delta >= MEANINGFUL_IMPROVEMENT \/ best_metrics.mAP50 = 0
        is_overfitting == CheckFailed(checks, "overfitting")
        has_forgetting == CheckFailed(checks, "catastrophic_forgetting")
        should_rollback == ShouldRollback(has_critical, round_number)
        can_improve == /\ ~is_overfitting
                       /\ ~has_critical
                       /\ rounds_without_improvement < GUARDIAN_MAX_STALE_ROUNDS
        severity == OverallSeverity(checks)
    IN [empty |-> FALSE, is_healthy |-> all_passed, should_rollback |-> should_rollback,
        is_improved |-> is_improved, is_overfitting |-> is_overfitting,
        has_forgetting |-> has_forgetting, can_improve_further |-> can_improve,
        overall_severity |-> severity, checks |-> checks,
        recommendation |-> _generate_recommendation(checks, is_improved,
                                                    is_overfitting, should_rollback)]


\* ---------------------------------------------------------- DataQualityGate
\* a detection: class id, confidence (thousandths), box centre and size
\* (hundredths of the image)
Detection(class_id, confidence, x, y) ==
    [class_id |-> class_id, confidence |-> confidence, x |-> x, y |-> y,
     width |-> 20, height |-> 20]

\* a pseudo-label; has_quality_score is `"quality_score" in label`
Label(has_quality_score, quality_score, detections) ==
    [has_quality_score |-> has_quality_score, quality_score |-> quality_score,
     detections |-> detections]

\* round(v, 1) of a float given in hundredths, as tenths; the ties follow the
\* binary value of the float
Round1(v) ==
    LET r == v % 10
    IN IF r < 5 THEN v \div 10
       ELSE IF r > 5 THEN v \div 10 + 1
       ELSE IF v \in {5, 45, 55, 65, 75} THEN v \div 10 + 1 ELSE v \div 10

\* sorted(detections, key=class_id): stable
RECURSIVE SortByClass(_)
SortByClass(dets) ==
    IF dets = <<>> THEN <<>>
    ELSE LET lowest == CHOOSE i \in 1..Len(dets) :
                           /\ \A j \in 1..Len(dets) : dets[i].class_id <= dets[j].class_id
                           /\ \A j \in 1..(i - 1) : dets[j].class_id # dets[i].class_id
         IN <<dets[lowest]>> \o SortByClass(RemoveAt(dets, lowest))

\* DataQualityGate._compute_sample_hash: the digest held as its preimage
_compute_sample_hash(label) ==
    LET sorted == SortByClass(label.detections)
    IN [i \in 1..Len(sorted) |->
           << sorted[i].class_id, Round1(sorted[i].x), Round1(sorted[i].y),
              Round1(sorted[i].width), Round1(sorted[i].height) >>]

GateCheck(name, passed) == [name |-> name, passed |-> passed]

\* DataQualityGate._check_sample_count
_check_sample_count(labels) ==
    GateCheck("sample_count", Len(labels) >= MIN_SAMPLE_COUNT)

\* a / b + c / d as a fraction
FracAdd(f, g) == [num |-> f.num * g.den + g.num * f.den, den |-> f.den * g.den]

RECURSIVE FracSum(_)
FracSum(fs) == IF fs = <<>> THEN [num |-> 0, den |-> 1]
               ELSE FracAdd(Head(fs), FracSum(Tail(fs)))

\* DataQualityGate._check_quality_scores
_check_quality_scores(labels) ==
    LET scored == SelectSeq(labels, LAMBDA l : l.has_quality_score)
        detected == SelectSeq(labels, LAMBDA l : l.detections # <<>>)
        quality_scores ==
            IF scored # <<>>
            THEN [i \in 1..Len(scored) |-> [num |-> scored[i].quality_score, den |-> 1]]
            ELSE [i \in 1..Len(detected) |->
                     [num |-> SumSeq([j \in 1..Len(detected[i].detections) |->
                                         detected[i].detections[j].confidence]),
                      den |-> Len(detected[i].detections)]]
        total == FracSum(quality_scores)
    IN IF quality_scores = <<>>
       THEN GateCheck("quality_score", TRUE)
       ELSE GateCheck("quality_score",
                      total.num >= MIN_QUALITY_SCORE * Len(quality_scores) * total.den)

\* every detection of every label, in order
RECURSIVE AllDetections(_)
AllDetections(labels) ==
    IF labels = <<>> THEN <<>>
    ELSE Head(labels).detections \o AllDetections(Tail(labels))

\* detections of a label set whose class_id is c
CountClass(dets, c) == Len(SelectSeq(dets, LAMBDA d : d.class_id = c))

\* DataQualityGate._check_class_balance
_check_class_balance(labels) ==
    LET dets == AllDetections(labels)
        classes == { dets[i].class_id : i \in 1..Len(dets) }
        count(c) == CountClass(dets, c)
    IN IF Cardinality(classes) <= 1
       THEN GateCheck("class_balance", TRUE)
       ELSE LET most_common == CHOOSE n \in { count(c) : c \in classes } :
                                   \A c \in classes : count(c) <= n
                least_common == CHOOSE n \in { count(c) : c \in classes } :
                                    \A c \in classes : count(c) >= n
            IN GateCheck("class_balance",
                         most_common <= MAX_CLASS_IMBALANCE_RATIO * least_common)

\* DataQualityGate._check_duplicates
_check_duplicates(labels) ==
    IF Len(labels) < 2
    THEN GateCheck("duplicates", TRUE)
    ELSE LET hashes == { _compute_sample_hash(labels[i]) : i \in 1..Len(labels) }
             duplicates == Len(labels) - Cardinality(hashes)
         IN GateCheck("duplicates",
                      duplicates * 100 <= MAX_DUPLICATE_RATIO * Len(labels))

\* the keys of a feature dict in some order
RECURSIVE SetToSeq(_)
SetToSeq(S) ==
    IF S = {} THEN <<>>
    ELSE LET e == CHOOSE x \in S : TRUE IN <<e>> \o SetToSeq(S \ {e})

\* int(det.x * 3), int(det.y * 3): the cell of the 3x3 grid
SpatialBin(det) == << (det.x * 3) \div 100, (det.y * 3) \div 100 >>

\* DataQualityGate._extract_distribution_features: the counts the ratios
\* are made of
_extract_distribution_features(labels) ==
    LET dets == AllDetections(labels)
    IN [dets |-> dets,
        classes |-> { dets[i].class_id : i \in 1..Len(dets) },
        bins |-> { SpatialBin(dets[i]) : i \in 1..Len(dets) },
        total_detections |-> Len(dets),
        total_confidence |-> SumSeq([i \in 1..Len(dets) |-> dets[i].confidence]),
        images |-> Len(labels)]

\* detections of a label set that fall in cell k of the 3x3 grid
CountBin(dets, k) == Len(SelectSeq(dets, LAMBDA d : SpatialBin(d) = k))

\* DataQualityGate._compute_distribution_divergence >= MIN_DIVERSITY_SCORE,
\* every ratio brought to the common denominator Ta * Tb * La * Lb * 1000
DivergenceAtLeast(a, b, threshold) ==
    LET Ta == Max2(a.total_detections, 1)
        Tb == Max2(b.total_detections, 1)
        La == Max2(a.images, 1)
        Lb == Max2(b.images, 1)
        class_keys == a.classes \cup b.classes
        bin_keys == a.bins \cup b.bins
        class_seq == SetToSeq(class_keys)
        bin_seq == SetToSeq(bin_keys)
        class_diff(c) == Abs(CountClass(a.dets, c) * Tb - CountClass(b.dets, c) * Ta)
        bin_diff(k) == Abs(CountBin(a.dets, k) * Tb - CountBin(b.dets, k) * Ta)
        class_total == SumSeq([i \in 1..Len(class_seq) |-> class_diff(class_seq[i])])
        bin_total == SumSeq([i \in 1..Len(bin_seq) |-> bin_diff(bin_seq[i])])
        conf_diff == Abs(a.total_confidence * Tb - b.total_confidence * Ta)
        per_image_diff == Abs(a.total_detections * Lb - b.total_detections * La)
        num_keys == Cardinality(class_keys) + Cardinality(bin_keys) + 2
        total_diff == (1000 * (class_total + bin_total)
                       + conf_diff) * La * Lb
                      + 1000 * per_image_diff * Ta * Tb
    IN total_diff >= threshold * num_keys * Ta * Tb * La * Lb

\* DataQualityGate._check_diversity
_check_diversity(new_labels, existing_labels) ==
    IF existing_labels = <<>>
    THEN GateCheck("diversity", TRUE)
    ELSE GateCheck("diversity",
                   DivergenceAtLeast(_extract_distribution_features(new_labels),
                                     _extract_distribution_features(existing_labels),
                                     MIN_DIVERSITY_SCORE))

\* variant: a gate that tolerates one failed check
GatePassedButOne(failures) == Len(failures) <= 1

\* passed = len(failures) == 0
GatePassed(failures) == Len(failures) = 0

\* DataQualityGate.check
check(pseudo_labels, existing_labels) ==
    LET checks == << _check_sample_count(pseudo_labels),
                     _check_quality_scores(pseudo_labels),
                     _check_class_balance(pseudo_labels),
                     _check_diversity(pseudo_labels, existing_labels),
                     _check_duplicates(pseudo_labels) >>
        failures == SelectSeq(checks, LAMBDA c : ~c.passed)
        passed == GatePassed(failures)
    IN [passed |-> passed, checks |-> checks, failures |-> failures,
        summary |-> IF passed THEN "All quality checks passed"
                    ELSE "Quality gate FAILED"]

\* candidate datasets a job can start with
GoodLabel(i) == Label(TRUE, 800, << Detection(0, 900, 10 * (i - 1) + 2, 50) >>)

PseudoLabelSamples ==
    { <<>>,
      [i \in 1..MIN_SAMPLE_COUNT |-> GoodLabel(i)],
      [i \in 1..(MIN_SAMPLE_COUNT - 2) |-> GoodLabel(i)] }


\* ---------------------------------------------------------- TrainingAgent
\* TrainingAgent._generate_training_config: the fields the trigger uses
_generate_training_config(curriculum_info) ==
    LET total_samples == curriculum_info.total_samples
    IN [epochs |-> IF total_samples < 50 THEN DEFAULT_EPOCHS * 2
                   ELSE IF total_samples < 200 THEN (DEFAULT_EPOCHS * 3) \div 2
                   ELSE DEFAULT_EPOCHS,
        batch_size |-> IF total_samples < 50 THEN 8
                       ELSE IF total_samples < 200 THEN 16 ELSE 32,
        img_size |-> DEFAULT_IMG_SIZE]

\* training_config / curriculum_info not set
NoConfig == [epochs |-> 0, batch_size |-> 0, img_size |-> 0]
NoCurriculum == [total_samples |-> 0]

\* ------------------------------------------------------------- AgentState
VARIABLES
    pc,      \* the node the graph runs next, "END" after finalize
    state,   \* the AgentState dict threaded through the nodes
    obs,     \* what happened in the current round and job (not program state)
    unit,    \* one direct call of the guardian and the evaluation agent
    store    \* the model versions of the job in the external store, by id

vars == << pc, state, obs, unit, store >>

\* image paths: uploads are MaxUploaded..1 (unsorted), the crawl of round r
\* returns 10r+1..
UploadChoices ==
    { <<>>, [i \in 1..MaxUploaded |-> MaxUploaded + 1 - i] }

\* WebCrawler.crawl_images in round r returning n images
CrawledImages(r, n) == [i \in 1..n |-> 10 * r + i]

\* the first model comparison has not been made
NoComparison ==
    [is_first_round |-> FALSE, is_improved |-> FALSE, severity |-> "none",
     mAP50_delta |-> 0]

\* the state handed to run_workflow
InitialState(images, with_uploads, keywords, crawled, labels, model, rounds) ==
    [ image_urls |-> images,
      uploaded_images |-> IF with_uploads THEN images ELSE <<>>,
      analysis_result |-> "",
      search_keywords |-> keywords,
      search_queries |-> <<>>,
      scene_type |-> "",
      crawled_count |-> crawled,
      acquired_images |-> <<>>,
      pseudo_labels |-> labels,
      training_status |-> "pending",
      training_config |-> NoConfig,
      curriculum_info |-> NoCurriculum,
      errors |-> <<>>,
      model_path |-> model,
      round_number |-> None,
      max_rounds |-> rounds,
      best_model_path |-> "",
      best_metrics |-> EmptyDict,
      evaluation_metrics |-> EmptyDict,
      model_comparison |-> NoComparison,
      continuation_decision |-> EmptyDecision,
      holdout_validation_set |-> <<>>,
      validation_set_hash |-> NoHash,
      rounds_without_improvement |-> 0,
      model_health_report |-> EmptyReport ]

NoObs ==
    [ evaluations |-> 0, finalizes |-> 0, training_triggered |-> FALSE,
      guardian_rollback |-> FALSE, evaluated |-> FALSE, faults |-> 0 ]

\* no direct call in progress
NoUnit ==
    [ phase |-> "none", current_metrics |-> EmptyDict, best_metrics |-> EmptyDict,
      round_number |-> 1, rounds_without_improvement |-> 0,
      report |-> EmptyReport, decision |-> EmptyDecision ]

Init ==
    /\ unit = NoUnit
    /\ pc = "initialize_round"
    /\ \E images \in UploadChoices, with_uploads \in BOOLEAN,
          keywords \in { <<>>, <<"seed">> }, crawled \in 0..1,
          labels \in PseudoLabelSamples, model \in { "", "yolov5s.pt" },
          rounds \in { None } \cup 0..MaxRoundsBound :
          state = InitialState(images, with_uploads, keywords, crawled, labels,
                               model, rounds)
    /\ obs = NoObs
    /\ store = <<>>

\* --------------------------------------------------------- workflow_graph
\* state.get("max_rounds") or DEFAULT_MAX_ROUNDS
OrDefault(v, default) == IF v = None \/ v = 0 THEN default ELSE v

\* variant: a loop-back that skips a round number
initialize_round_node_skipping(s) ==
    IF s.round_number = None
    THEN [s EXCEPT !.round_number = 1,
                   !.max_rounds = OrDefault(s.max_rounds, DEFAULT_MAX_ROUNDS),
                   !.rounds_without_improvement = 0,
                   !.best_metrics = EmptyDict,
                   !.best_model_path = ""]
    ELSE [s EXCEPT !.round_number = s.round_number + 2,
                   !.acquired_images = <<>>,
                   !.pseudo_labels = <<>>,
                   !.crawled_count = 0,
                   !.search_keywords = <<>>,
                   !.evaluation_metrics = EmptyDict,
                   !.continuation_decision = EmptyDecision]

\* variant: a loop-back that also forgets the best model so far
initialize_round_node_forgetting(s) ==
    IF s.round_number = None
    THEN [s EXCEPT !.round_number = 1,
                   !.max_rounds = OrDefault(s.max_rounds, DEFAULT_MAX_ROUNDS),
                   !.rounds_without_improvement = 0,
                   !.best_metrics = EmptyDict,
                   !.best_model_path = ""]
    ELSE [s EXCEPT !.round_number = s.round_number + 1,
                   !.acquired_images = <<>>,
                   !.pseudo_labels = <<>>,
                   !.crawled_count = 0,
                   !.search_keywords = <<>>,
                   !.evaluation_metrics = EmptyDict,
                   !.continuation_decision = EmptyDecision,
                   !.best_metrics = EmptyDict,
                   !.best_model_path = ""]

\* variant: a new round that also clears the errors of the rounds before it
initialize_round_node_clearing_errors(s) ==
    IF s.round_number = None
    THEN [s EXCEPT !.round_number = 1,
                   !.max_rounds = OrDefault(s.max_rounds, DEFAULT_MAX_ROUNDS),
                   !.rounds_without_improvement = 0,
                   !.best_metrics = EmptyDict,
                   !.best_model_path = ""]
    ELSE [s EXCEPT !.round_number = s.round_number + 1,
                   !.acquired_images = <<>>,
                   !.pseudo_labels = <<>>,
                   !.crawled_count = 0,
                   !.search_keywords = <<>>,
                   !.evaluation_metrics = EmptyDict,
                   !.continuation_decision = EmptyDecision,
                   !.errors = <<>>]

\* initialize_round_node
initialize_round_node(s) ==
    IF s.round_number = None
    THEN [s EXCEPT !.round_number = 1,
                   !.max_rounds = OrDefault(s.max_rounds, DEFAULT_MAX_ROUNDS),
                   !.rounds_without_improvement = 0,
                   !.best_metrics = EmptyDict,
                   !.best_model_path = ""]
    ELSE [s EXCEPT !.round_number = s.round_number + 1,
                   !.acquired_images = <<>>,
                   !.pseudo_labels = <<>>,
                   !.crawled_count = 0,
                   !.search_keywords = <<>>,
                   !.evaluation_metrics = EmptyDict,
                   !.continuation_decision = EmptyDecision]

\* variant: a finalize that keeps the status of a failed or skipped training
finalize_node_keeping_status(s) ==
    IF s.training_status \in { "failed", "skipped" } THEN s
    ELSE [s EXCEPT !.training_status = "completed"]

\* finalize_node
finalize_node(s) == [s EXCEPT !.training_status = "completed"]

\* should_continue_to_hunter
should_continue_to_hunter(s) ==
    IF Len(s.search_keywords) > 0 THEN "hunter" ELSE "finalize"

\* should_continue_to_evolution
should_continue_to_evolution(s) ==
    IF s.crawled_count > 0 THEN "evolution" ELSE "finalize"

\* state.get("max_rounds", DEFAULT_MAX_ROUNDS)
GetMaxRounds(s) == IF s.max_rounds = None THEN DEFAULT_MAX_ROUNDS ELSE s.max_rounds

\* variant: the round limit is reached one round late
MaxRoundsExceeded(round_number, max_rounds) == round_number > max_rounds

\* round_number >= max_rounds of should_continue_loop
MaxRoundsReached(round_number, max_rounds) == round_number >= max_rounds

\* variant: the edge that does not read should_continue
should_continue_loop_unless_rollback(s) ==
    LET decision == s.continuation_decision
        round_number == IF s.round_number = None THEN 1 ELSE s.round_number
        max_rounds == IF s.max_rounds = None THEN DEFAULT_MAX_ROUNDS ELSE s.max_rounds
    IN IF decision.should_rollback THEN "finalize"
       ELSE IF round_number >= max_rounds THEN "finalize"
       ELSE "initialize_round"

\* should_continue_loop
should_continue_loop(s) ==
    LET decision == s.continuation_decision
        round_number == IF s.round_number = None THEN 1 ELSE s.round_number
        max_rounds == GetMaxRounds(s)
    IN IF decision.should_rollback THEN "finalize"
       ELSE IF ~decision.should_continue THEN "finalize"
       ELSE IF MaxRoundsReached(round_number, max_rounds) THEN "finalize"
       ELSE "initialize_round"


\* ------------------------------------------------------- evaluation stage
\* EvaluationAgent._parse_validation_metrics: the six keys read from the
\* executor's result over the _empty_metrics template; per_class stays {}
_parse_validation_metrics(result) ==
    [_empty_metrics EXCEPT !.mAP50 = result.mAP50,
                           !.mAP50_95 = result.mAP50_95,
                           !.precision = result.precision,
                           !.recall = result.recall,
                           !.val_loss = result.val_loss,
                           !.train_loss = result.train_loss]

\* variant: validation that trusts the executor whatever it is given
_run_validation_unguarded(model_path, validation_images, predict_raises, result) ==
    IF predict_raises THEN _empty_metrics ELSE _parse_validation_metrics(result)

\* EvaluationAgent._run_validation
_run_validation(model_path, validation_images, predict_raises, result) ==
    IF model_path = "" \/ validation_images = <<>>
    THEN _empty_metrics
    ELSE IF predict_raises THEN _empty_metrics
    ELSE _parse_validation_metrics(result)

\* EvaluationAgent.execute, steps 3 to 6: comparison, calibration, issue
\* detection and decision for one set of validation metrics
EvaluateAgainstBest(val_metrics, best_metrics, round_number, rounds_without_improvement) ==
    LET comparison == _compare_with_best(val_metrics, best_metrics)
        calibration == _compute_calibration_metrics(val_metrics)
        overfitting == _detect_overfitting(val_metrics)
        forgetting == _detect_catastrophic_forgetting(val_metrics.per_class,
                                                      best_metrics.per_class)
    IN [evaluation_metrics |-> val_metrics,
        model_comparison |-> comparison,
        calibration_metrics |-> calibration,
        continuation_decision |->
            _make_continuation_decision(comparison, calibration, overfitting,
                                        forgetting, round_number,
                                        rounds_without_improvement)]

\* variant: the holdout set is sampled again in every round
HoldoutResampled(holdout_set, all_images) ==
    IF all_images # <<>> THEN _setup_holdout_set(all_images) ELSE holdout_set

\* EvaluationAgent.execute, step 1: keep the holdout set of the context, or
\* create one when the context has none
HoldoutFor(holdout_set, all_images) ==
    IF holdout_set = <<>> /\ all_images # <<>>
    THEN _setup_holdout_set(all_images)
    ELSE holdout_set

\* EvaluationAgent.execute
execute(context, predict_raises, result) ==
    LET holdout_set == HoldoutFor(context.holdout_validation_set, context.all_image_paths)
        validation_set_hash == _compute_set_hash(holdout_set)
        val_metrics == _run_validation(context.model_path, holdout_set,
                                       predict_raises, result)
        evaluated == EvaluateAgainstBest(val_metrics, context.best_metrics,
                                         context.round_number,
                                         context.rounds_without_improvement)
    IN [evaluation_metrics |-> evaluated.evaluation_metrics,
        model_comparison |-> evaluated.model_comparison,
        calibration_metrics |-> evaluated.calibration_metrics,
        continuation_decision |-> evaluated.continuation_decision,
        holdout_validation_set |-> holdout_set,
        validation_set_hash |-> validation_set_hash]

\* state.get("round_number", 1)
GetRound(s) == IF s.round_number = None THEN 1 ELSE s.round_number

\* the context evaluation_node builds
EvaluationContext(s) ==
    [round_number |-> GetRound(s),
     model_path |-> s.model_path,
     best_metrics |-> s.best_metrics,
     holdout_validation_set |-> s.holdout_validation_set,
     all_image_paths |-> s.uploaded_images \o s.acquired_images,
     rounds_without_improvement |-> s.rounds_without_improvement]

\* evaluation_node, the guardian's report for the round
HealthReportFor(s, result) ==
    check_model_health(result.evaluation_metrics, s.best_metrics, GetRound(s),
                       s.rounds_without_improvement)

\* evaluation_node, "Update state with evaluation results": the decision
\* written to the state after the guardian's override
DecisionWritten(overridden, result) == result.continuation_decision

\* variant: the round's metrics are adopted whatever the comparison says
UpdateBestAlways(s, before, result) ==
    [s EXCEPT !.best_metrics = result.evaluation_metrics,
              !.best_model_path = before.model_path,
              !.rounds_without_improvement =
                  IF result.model_comparison.is_improved THEN 0
                  ELSE before.rounds_without_improvement + 1]

\* evaluation_node, "Update best metrics if improved"
UpdateBest(s, before, result) ==
    IF result.model_comparison.is_improved
    THEN [s EXCEPT !.best_metrics = result.evaluation_metrics,
                   !.best_model_path = before.model_path,
                   !.rounds_without_improvement = 0]
    ELSE [s EXCEPT !.rounds_without_improvement = before.rounds_without_improvement + 1]

\* ---------------------------------------------- the model-version store
\* a stored version; its id is its position in the store
ModelVersion(version, is_best, is_active) ==
    [version |-> version, is_best |-> is_best, is_active |-> is_active]

\* createModelVersion(record): the record is inserted as given
create_model_version(versions, record) == Append(versions, record)

\* getBestVersion(projectId): a version marked best, none when there is none
BestVersionIds(versions) == { id \in 1..Len(versions) : versions[id].is_best }
get_best_model_version(versions) ==
    IF BestVersionIds(versions) = {} THEN { None } ELSE BestVersionIds(versions)

\* update of one version's is_active flag
update_model_version(versions, id, is_active) ==
    [versions EXCEPT ![id].is_active = is_active]

\* setActive(projectId, versionId): the version is marked active
set_active_model(versions, id) == [versions EXCEPT ![id].is_active = TRUE]

\* the dict rollback_to_best returns
RollbackResult(success, reason, rolled_back_to, deactivated_version) ==
    [success |-> success, reason |-> reason, rolled_back_to |-> rolled_back_to,
     deactivated_version |-> deactivated_version]

\* the store calls of rollback_to_best that can raise
RollbackFailures == { "none", "get_best", "deactivate", "activate" }

\* variant: a rollback that deactivates the current version before it looks
\* for the best one
rollback_to_best_deactivating_first(versions, current_version_id, best_id, failure, message) ==
    LET deactivated ==
            IF current_version_id # None
            THEN update_model_version(versions, current_version_id, FALSE)
            ELSE versions
    IN IF failure \in { "get_best", "deactivate" }
       THEN [versions |-> versions, result |-> RollbackResult(FALSE, message, None, None)]
       ELSE IF best_id = None
       THEN [versions |-> deactivated,
             result |-> RollbackResult(FALSE, "No best model version found", None, None)]
       ELSE IF failure = "activate"
       THEN [versions |-> deactivated,
             result |-> RollbackResult(FALSE, message, None, None)]
       ELSE [versions |-> set_active_model(deactivated, best_id),
             result |-> RollbackResult(TRUE, "", best_id, current_version_id)]

\* ModelGuardian.rollback_to_best; best_id: what the store returns as best;
\* failure: the store call that raises; message: the text of its exception
rollback_to_best(versions, current_version_id, best_id, failure, message) ==
    IF failure = "get_best"
    THEN [versions |-> versions, result |-> RollbackResult(FALSE, message, None, None)]
    ELSE IF best_id = None
    THEN [versions |-> versions,
          result |-> RollbackResult(FALSE, "No best model version found", None, None)]
    ELSE IF current_version_id # None /\ failure = "deactivate"
    THEN [versions |-> versions, result |-> RollbackResult(FALSE, message, None, None)]
    ELSE LET deactivated ==
                 IF current_version_id # None
                 THEN update_model_version(versions, current_version_id, FALSE)
                 ELSE versions
         IN IF failure = "activate"
            THEN [versions |-> deactivated,
                  result |-> RollbackResult(FALSE, message, None, None)]
            ELSE [versions |-> set_active_model(deactivated, best_id),
                  result |-> RollbackResult(TRUE, "", best_id, current_version_id)]

\* EvaluationAgent.execute, step 7: the round's version is stored with
\* is_best = is_improved and is_active = not should_rollback, unless the
\* store call raises, which is logged and ignored
StoreModelVersion(versions, round_number, is_improved, should_rollback, create_raises) ==
    IF create_raises
    THEN versions
    ELSE create_model_version(versions,
             ModelVersion(round_number, is_improved, ~should_rollback))

\* the guardian asks for a rollback in evaluation_node; after: the state the
\* node returns, whose model_health_report is the report of this call
GuardianRollback(after, node_raises) ==
    ~node_raises /\ after.model_health_report.should_rollback

\* the version the store would return as best during evaluation_node; the
\* comparison and the decision execute returned are the ones in after
BestDuring(after, versions, node_raises, create_raises) ==
    IF node_raises
    THEN { None }
    ELSE get_best_model_version(
             StoreModelVersion(versions, GetRound(after),
                 after.model_comparison.is_improved,
                 after.continuation_decision.should_rollback, create_raises))

\* the store after evaluation_node: execute stores the round's version, and
\* a rollback verdict of the guardian calls rollback_to_best without a
\* current version id (no node sets model_version_id)
evaluation_node_store(after, versions, node_raises, create_raises, failure, best_id) ==
    IF node_raises
    THEN versions
    ELSE LET created == StoreModelVersion(versions, GetRound(after),
                            after.model_comparison.is_improved,
                            after.continuation_decision.should_rollback,
                            create_raises)
         IN IF GuardianRollback(after, node_raises)
            THEN rollback_to_best(created, None, best_id, failure, "store error").versions
            ELSE created

\* variant: an except clause that records the error and writes no decision
evaluation_node_silent(s, node_raises, predict_raises, result_in) ==
    IF node_raises
    THEN [s EXCEPT !.evaluation_metrics = EmptyDict,
                   !.errors = Append(s.errors, "evaluation node failed")]
    ELSE LET result == execute(EvaluationContext(s), predict_raises, result_in)
             health_report == HealthReportFor(s, result)
             reported == [s EXCEPT !.model_health_report = health_report]
             overridden ==
                 IF health_report.should_rollback
                 THEN [reported EXCEPT !.continuation_decision =
                          Decision(FALSE, TRUE, "rollback", health_report.recommendation)]
                 ELSE reported
             updated ==
                 [overridden EXCEPT
                     !.evaluation_metrics = result.evaluation_metrics,
                     !.model_comparison = result.model_comparison,
                     !.continuation_decision =
                         DecisionWritten(overridden.continuation_decision, result),
                     !.holdout_validation_set = result.holdout_validation_set,
                     !.validation_set_hash = result.validation_set_hash]
         IN UpdateBest(updated, s, result)

\* evaluation_node; node_raises: an exception reaches the node's except
\* clause (client construction, execute, the health check) before any write
evaluation_node(s, node_raises, predict_raises, result_in) ==
    IF node_raises
    THEN [s EXCEPT !.evaluation_metrics = EmptyDict,
                   !.continuation_decision =
                       Decision(FALSE, FALSE, "stop", "Evaluation failed"),
                   !.errors = Append(s.errors, "evaluation node failed")]
    ELSE LET result == execute(EvaluationContext(s), predict_raises, result_in)
             health_report == HealthReportFor(s, result)
             reported == [s EXCEPT !.model_health_report = health_report]
             overridden ==
                 IF health_report.should_rollback
                 THEN [reported EXCEPT !.continuation_decision =
                          Decision(FALSE, TRUE, "rollback", health_report.recommendation)]
                 ELSE reported
             updated ==
                 [overridden EXCEPT
                     !.evaluation_metrics = result.evaluation_metrics,
                     !.model_comparison = result.model_comparison,
                     !.continuation_decision =
                         DecisionWritten(overridden.continuation_decision, result),
                     !.holdout_validation_set = result.holdout_validation_set,
                     !.validation_set_hash = result.validation_set_hash]
         IN UpdateBest(updated, s, result)

\* ------------------------------------------------------------ other nodes
\* analysis_node; qwen_raises: the vision service call fails
analysis_node(s, qwen_raises, should_acquire, queries) ==
    LET image_urls == IF s.image_urls # <<>> THEN s.image_urls ELSE s.uploaded_images
    IN IF image_urls = <<>>
       THEN [s EXCEPT !.errors = Append(s.errors, "no image urls")]
       ELSE IF qwen_raises
       THEN [s EXCEPT !.errors = Append(s.errors, "analysis node failed")]
       ELSE LET strategy == IF should_acquire THEN queries ELSE <<>>
            IN [s EXCEPT !.analysis_result = "analysis",
                         !.search_keywords = strategy,
                         !.search_queries = strategy,
                         !.scene_type = IF should_acquire THEN "scene" ELSE "unknown"]

\* hunting_node; crawl_raises: the crawler fails; n: images it returns
hunting_node(s, crawl_raises, n) ==
    LET search_keywords == IF s.search_keywords # <<>> THEN s.search_keywords
                           ELSE s.search_queries
    IN IF search_keywords = <<>>
       THEN [s EXCEPT !.errors = Append(s.errors, "no search keywords")]
       ELSE IF crawl_raises
       THEN [s EXCEPT !.errors = Append(s.errors, "hunting node failed")]
       ELSE LET crawled_images == CrawledImages(GetRound(s), n)
            IN [s EXCEPT !.image_urls = s.image_urls \o crawled_images,
                         !.acquired_images = crawled_images,
                         !.crawled_count = Len(crawled_images)]

TrainingOutcomes == { "connect_raises", "trigger_raises", "exit_nonzero", "exit_zero" }

\* evolution_node reaches remote_client.trigger_training
TrainingTriggered(s, outcome) ==
    /\ ~(s.crawled_count = 0 /\ s.pseudo_labels = <<>>)
    /\ outcome # "connect_raises"

\* evolution_node
evolution_node(s, outcome) ==
    IF s.crawled_count = 0 /\ s.pseudo_labels = <<>>
    THEN [s EXCEPT !.training_status = "skipped"]
    ELSE IF outcome \in { "connect_raises", "trigger_raises" }
    THEN [s EXCEPT !.training_status = "failed",
                   !.errors = Append(s.errors, "training node failed")]
    ELSE IF outcome = "exit_zero"
    THEN LET curriculum_info == [total_samples |-> Len(s.pseudo_labels)]
         IN [s EXCEPT !.training_status = "completed",
                      !.training_config = _generate_training_config(curriculum_info),
                      !.curriculum_info = curriculum_info]
    ELSE [s EXCEPT !.training_status = "failed",
                   !.errors = Append(s.errors, "training task failed")]


\* -------------------------------------------------------------- the graph
\* entry point and the loop-back edge: initialize_round -> perception
InitializeRound ==
    /\ UNCHANGED << unit, store >>
    /\ pc = "initialize_round"
    /\ state' = initialize_round_node(state)
    /\ pc' = "perception"
    /\ obs' = [obs EXCEPT !.training_triggered = FALSE,
                          !.guardian_rollback = FALSE,
                          !.evaluated = FALSE]

\* a stage may fail while the job's failure budget lasts
MayFail(failed) == failed => obs.faults < MaxFaults
Faults(failed) == IF failed THEN obs.faults + 1 ELSE obs.faults

\* a crawl returns nothing or a page of MaxCrawl images
CrawlCounts == { 0, MaxCrawl }

\* perception, then the conditional edge should_continue_to_hunter
Perception ==
    /\ UNCHANGED << unit, store >>
    /\ pc = "perception"
    /\ \E qwen_raises \in BOOLEAN, should_acquire \in BOOLEAN,
          queries \in { <<>>, <<"query">> } :
          /\ MayFail(qwen_raises)
          /\ state' = analysis_node(state, qwen_raises, should_acquire, queries)
          /\ obs' = [obs EXCEPT !.faults = Faults(qwen_raises)]
    /\ pc' = should_continue_to_hunter(state')

\* hunter, then the conditional edge should_continue_to_evolution
Hunter ==
    /\ UNCHANGED << unit, store >>
    /\ pc = "hunter"
    /\ \E crawl_raises \in BOOLEAN, n \in CrawlCounts :
          /\ MayFail(crawl_raises)
          /\ state' = hunting_node(state, crawl_raises, n)
          /\ obs' = [obs EXCEPT !.faults = Faults(crawl_raises)]
    /\ pc' = should_continue_to_evolution(state')

\* evolution -> evaluation
Evolution ==
    /\ UNCHANGED << unit, store >>
    /\ pc = "evolution"
    /\ \E outcome \in TrainingOutcomes :
          /\ MayFail(outcome # "exit_zero")
          /\ state' = evolution_node(state, outcome)
          /\ obs' = [obs EXCEPT !.training_triggered = TrainingTriggered(state, outcome),
                                !.faults = Faults(outcome # "exit_zero")]
    /\ pc' = "evaluation"

\* evaluation, then the conditional edge should_continue_loop
Evaluation ==
    /\ UNCHANGED unit
    /\ pc = "evaluation"
    /\ \E node_raises \in BOOLEAN, predict_raises \in BOOLEAN,
          result \in ExecutorResults :
          /\ MayFail(node_raises \/ predict_raises)
          /\ state' = evaluation_node(state, node_raises, predict_raises, result)
          /\ \E create_raises \in BOOLEAN, failure \in { "none", "get_best", "activate" } :
                LET store_fails == create_raises \/ failure # "none"
                    rollback == GuardianRollback(state', node_raises)
                IN /\ MayFail(node_raises \/ predict_raises \/ store_fails)
                   /\ create_raises => ~node_raises
                   /\ failure # "none" => rollback
                   /\ \E best_id \in BestDuring(state', store, node_raises, create_raises) :
                         store' = evaluation_node_store(state', store, node_raises,
                                      create_raises, failure, best_id)
                   /\ obs' = [obs EXCEPT
                                 !.evaluations = obs.evaluations + 1,
                                 !.evaluated = ~node_raises,
                                 !.faults = Faults(node_raises \/ predict_raises
                                                   \/ store_fails),
                                 !.guardian_rollback = rollback]
    /\ pc' = should_continue_loop(state')

\* finalize -> END
Finalize ==
    /\ UNCHANGED << unit, store >>
    /\ pc = "finalize"
    /\ state' = finalize_node(state)
    /\ pc' = "END"
    /\ obs' = [obs EXCEPT !.finalizes = obs.finalizes + 1]

Next ==
    \/ InitializeRound
    \/ Perception
    \/ Hunter
    \/ Evolution
    \/ Evaluation
    \/ Finalize

Spec == Init /\ [][Next]_vars

\* the names a node or edge can hand control to
Nodes ==
    { "initialize_round", "perception", "hunter", "evolution", "evaluation",
      "finalize", "END" }

\* the scheduled node runs and hands control on: every step of Next is such
\* a step, and one is possible in every state but END
NodeRuns == pc # "END" /\ pc' \in Nodes \ { pc }

\* the graph runs a node whenever one is scheduled (each stage call returns
\* or fails)
FairSpec == Spec /\ WF_pc(NodeRuns)

\* largest round_number a caller presets in the initial state
MaxPresetRound == 2

\* run_workflow streams the graph from whatever AgentState the caller hands
\* it: round_number may be preset.  Only initial states whose round_number
\* is within their max_rounds are drawn.
AcceptedInit ==
    /\ unit = NoUnit
    /\ pc = "initialize_round"
    /\ \E images \in UploadChoices, with_uploads \in BOOLEAN,
          keywords \in { <<>>, <<"seed">> }, crawled \in 0..1,
          labels \in PseudoLabelSamples, model \in { "", "yolov5s.pt" },
          rounds \in { None } \cup 0..MaxRoundsBound,
          preset \in { None } \cup 1..MaxPresetRound :
          /\ preset # None =>
                 preset <= (IF rounds = None THEN DEFAULT_MAX_ROUNDS ELSE rounds)
          /\ state = [InitialState(images, with_uploads, keywords, crawled,
                                   labels, model, rounds)
                         EXCEPT !.round_number = preset]
    /\ obs = NoObs
    /\ store = <<>>

AcceptedSpec == AcceptedInit /\ [][Next]_vars

\* rounds of the long job
MaxLongRounds == 5

\* a fresh job with uploads and a model, allowed MaxLongRounds rounds: long
\* enough for two rounds without improvement to precede an evaluation
LongInit ==
    /\ unit = NoUnit
    /\ pc = "initialize_round"
    /\ state = InitialState([i \in 1..MaxUploaded |-> MaxUploaded + 1 - i], TRUE,
                            <<>>, 0, <<>>, "yolov5s.pt", MaxLongRounds)
    /\ obs = NoObs
    /\ store = <<>>

LongSpec == LongInit /\ [][Next]_vars

\* holdout sets a job's state can arrive with
HoldoutChoices == { <<1>>, <<2>> }

\* a job resumed after its first round: the state handed to run_workflow
\* holds a holdout set and the hash recorded for the job, each as the store
\* returned it, so the recorded hash may be that of another set
RecordedInit ==
    /\ unit = NoUnit
    /\ pc = "initialize_round"
    /\ \E keywords \in { <<>>, <<"seed">> }, model \in { "", "yolov5s.pt" },
          rounds \in { None } \cup 1..MaxRoundsBound,
          holdout \in HoldoutChoices, recorded \in HoldoutChoices :
          state = [InitialState([i \in 1..MaxUploaded |-> MaxUploaded + 1 - i],
                                TRUE, keywords, 0, <<>>, model, rounds)
                      EXCEPT !.round_number = 1,
                             !.holdout_validation_set = holdout,
                             !.validation_set_hash = _compute_set_hash(recorded)]
    /\ obs = NoObs
    /\ store = <<>>

RecordedSpec == RecordedInit /\ [][Next]_vars


\* ------------------------------------------- direct calls (unit harness)
\* largest round number passed to a direct call
MaxUnitRound == 2

\* a caller hands metrics, the best metrics so far, the round and the stale
\* round count to the guardian and to the evaluation agent
UnitInit ==
    /\ pc = "unit"
    /\ state = InitialState(<<>>, FALSE, <<>>, 0, <<>>, "", None)
    /\ obs = NoObs
    /\ store = <<>>
    /\ \E current \in MetricSamples, best \in MetricSamples \cup { EmptyDict },
          round_number \in 1..MaxUnitRound,
          stale \in 0..MAX_ROUNDS_WITHOUT_IMPROVEMENT :
          unit = [NoUnit EXCEPT !.phase = "input",
                                !.current_metrics = current,
                                !.best_metrics = best,
                                !.round_number = round_number,
                                !.rounds_without_improvement = stale]

\* ModelGuardian.check_model_health called directly
CallCheckModelHealth ==
    /\ unit.phase = "input"
    /\ unit' = [unit EXCEPT
                   !.phase = "health",
                   !.report = check_model_health(unit.current_metrics, unit.best_metrics,
                                                 unit.round_number,
                                                 unit.rounds_without_improvement)]
    /\ UNCHANGED << pc, state, obs, store >>

\* the evaluation agent's comparison and decision for the same inputs
CallEvaluate ==
    /\ unit.phase = "health"
    /\ unit' = [unit EXCEPT
                   !.phase = "decided",
                   !.decision = EvaluateAgainstBest(unit.current_metrics,
                                    unit.best_metrics, unit.round_number,
                                    unit.rounds_without_improvement).continuation_decision]
    /\ UNCHANGED << pc, state, obs, store >>

UnitNext == CallCheckModelHealth \/ CallEvaluate

UnitSpec == UnitInit /\ [][UnitNext]_vars


\* ------------------------------------------------ direct calls of the gate
\* GateResult.to_dict: the names of the failed checks and the two counts
to_dict(result) ==
    [passed |-> result.passed,
     summary |-> result.summary,
     checks |-> result.checks,
     failures |-> [i \in 1..Len(result.failures) |-> result.failures[i].name],
     num_checks |-> Len(result.checks),
     num_passed |-> Len(SelectSeq(result.checks, LAMBDA c : c.passed))]

\* a label of class 1 in the lower right of the image, without a
\* quality_score of its own
OtherLabel(i, confidence) ==
    Label(FALSE, 0, << Detection(1, confidence, 90 - 5 * i, 80) >>)

\* datasets handed to the gate: empty, good, too few, low quality scores,
\* low confidence without quality scores, one class eleven times the other,
\* ten copies of one label, eight copies of a poor label, two even classes
GateLabelSamples ==
    { <<>>,
      [i \in 1..MIN_SAMPLE_COUNT |-> GoodLabel(i)],
      [i \in 1..(MIN_SAMPLE_COUNT - 2) |-> GoodLabel(i)],
      [i \in 1..MIN_SAMPLE_COUNT |->
          Label(TRUE, 300, << Detection(0, 900, 10 * (i - 1) + 2, 50) >>)],
      [i \in 1..MIN_SAMPLE_COUNT |-> OtherLabel(i, 300)],
      [i \in 1..MIN_SAMPLE_COUNT |->
          IF i = 1
          THEN Label(TRUE, 800, << Detection(0, 900, 2, 50), Detection(0, 900, 32, 50),
                                   Detection(1, 900, 62, 50) >>)
          ELSE GoodLabel(i)],
      [i \in 1..MIN_SAMPLE_COUNT |-> GoodLabel(1)],
      [i \in 1..(MIN_SAMPLE_COUNT - 2) |->
          Label(TRUE, 300, << Detection(0, 900, 2, 50) >>)],
      [i \in 1..MIN_SAMPLE_COUNT |->
          IF i % 2 = 0 THEN GoodLabel(i) ELSE OtherLabel(i, 900)] }

\* the training data the job already has
ExistingLabelSamples ==
    { <<>>,
      [i \in 1..MIN_SAMPLE_COUNT |-> GoodLabel(i)],
      [i \in 1..(MIN_SAMPLE_COUNT - 2) |-> GoodLabel(i)],
      [i \in 1..MIN_SAMPLE_COUNT |-> OtherLabel(i, 900)] }

NoGateResult ==
    [passed |-> FALSE, checks |-> <<>>, failures |-> <<>>, summary |-> ""]

NoGateDict ==
    [passed |-> FALSE, summary |-> "", checks |-> <<>>, failures |-> <<>>, num_checks |-> 0,
     num_passed |-> 0]

\* a caller hands a candidate dataset and the existing labels to the gate
GateInit ==
    /\ pc = "gate"
    /\ state = InitialState(<<>>, FALSE, <<>>, 0, <<>>, "", None)
    /\ obs = NoObs
    /\ store = <<>>
    /\ \E pseudo_labels \in GateLabelSamples, existing_labels \in ExistingLabelSamples :
          unit = [phase |-> "input", pseudo_labels |-> pseudo_labels,
                  existing_labels |-> existing_labels, result |-> NoGateResult,
                  dict |-> NoGateDict]

\* DataQualityGate.check called directly
CallCheck ==
    /\ unit.phase = "input"
    /\ unit' = [unit EXCEPT !.phase = "checked",
                            !.result = check(unit.pseudo_labels, unit.existing_labels)]
    /\ UNCHANGED << pc, state, obs, store >>

\* the caller serialises the result
CallToDict ==
    /\ unit.phase = "checked"
    /\ unit' = [unit EXCEPT !.phase = "reported", !.dict = to_dict(unit.result)]
    /\ UNCHANGED << pc, state, obs, store >>

GateNext == CallCheck \/ CallToDict

GateSpec == GateInit /\ [][GateNext]_vars


\* ------------------------------------------- direct calls of the rollback
\* most versions a job has stored when a rollback is asked for
MaxVersions == 2

\* the stores a rollback can find: any flags on up to MaxVersions versions
StoreSamples ==
    UNION { { [id \in 1..n |-> ModelVersion(id, flags[id][1], flags[id][2])] :
                flags \in [1..n -> BOOLEAN \X BOOLEAN] } :
            n \in 0..MaxVersions }

\* texts of the exceptions a store call raises
StoreErrors == { "timeout", "connection reset" }

\* a caller asks the guardian to roll back, naming the current version or not
RollbackInit ==
    /\ pc = "rollback"
    /\ state = InitialState(<<>>, FALSE, <<>>, 0, <<>>, "", None)
    /\ obs = NoObs
    /\ store \in StoreSamples
    /\ \E current_version_id \in { None } \cup 1..Len(store) :
          unit = [phase |-> "input", current_version_id |-> current_version_id,
                  before |-> store, best_id |-> None, failure |-> "none",
                  message |-> "", result |-> RollbackResult(FALSE, "", None, None)]

\* ModelGuardian.rollback_to_best called directly
CallRollbackToBest ==
    /\ unit.phase = "input"
    /\ \E best_id \in get_best_model_version(store), failure \in RollbackFailures,
          message \in StoreErrors :
          LET done == rollback_to_best(store, unit.current_version_id, best_id,
                                       failure, message)
          IN /\ store' = done.versions
             /\ unit' = [unit EXCEPT !.phase = "rolled_back", !.best_id = best_id,
                                     !.failure = failure, !.message = message,
                                     !.result = done.result]
    /\ UNCHANGED << pc, state, obs >>

RollbackNext == CallRollbackToBest

RollbackSpec == RollbackInit /\ [][RollbackNext]_vars


\* ------------------------------------------------- two jobs in one process
\* what the services of a job answer, the same in every round of the job
JobEnvs ==
    { [should_acquire |-> TRUE, n |-> MaxCrawl, outcome |-> "exit_zero",
       result |-> Metrics(500, 500, 1000, 950, <<>>)],
      [should_acquire |-> TRUE, n |-> MaxCrawl, outcome |-> "exit_nonzero",
       result |-> Metrics(0, 0, 0, 0, <<>>)],
      [should_acquire |-> TRUE, n |-> 0, outcome |-> "exit_zero",
       result |-> Metrics(500, 500, 1000, 950, <<>>)] }

\* module global _workflow_app and get_workflow_app: the graph is built when
\* the global is empty; graphs are numbered in the order they are built
get_workflow_app(app, builds) ==
    IF app = None
    THEN [app |-> builds + 1, builds |-> builds + 1]
    ELSE [app |-> app, builds |-> builds]

\* run_workflow up to its first await: the graph is fetched, the global is
\* reset, and a fresh graph is built, stored in the global and kept in the
\* local variable app
run_workflow(app, builds) ==
    LET first == get_workflow_app(app, builds)
    IN get_workflow_app(None, first.builds)

\* one node of the graph and the edge after it, run on a job's own state
JobNodeStep(node, s, env) ==
    IF node = "initialize_round"
    THEN [state |-> initialize_round_node(s), pc |-> "perception"]
    ELSE IF node = "perception"
    THEN LET after == analysis_node(s, FALSE, env.should_acquire, << "query" >>)
         IN [state |-> after, pc |-> should_continue_to_hunter(after)]
    ELSE IF node = "hunter"
    THEN LET after == hunting_node(s, FALSE, env.n)
         IN [state |-> after, pc |-> should_continue_to_evolution(after)]
    ELSE IF node = "evolution"
    THEN [state |-> evolution_node(s, env.outcome), pc |-> "evaluation"]
    ELSE IF node = "evaluation"
    THEN LET after == evaluation_node(s, FALSE, FALSE, env.result)
         IN [state |-> after, pc |-> should_continue_loop(after)]
    ELSE [state |-> finalize_node(s), pc |-> "END"]

\* the final state of a job that runs with no other job in the process
RECURSIVE RunAlone(_, _, _)
RunAlone(node, s, env) ==
    IF node = "END"
    THEN s
    ELSE LET next == JobNodeStep(node, s, env)
         IN RunAlone(next.pc, next.state, env)

JobIds == 1..2

\* a job before run_workflow is called for it
IdleJob(initial, env) ==
    [pos |-> "idle", app |-> None, pc |-> "initialize_round", state |-> initial,
     initial |-> initial, env |-> env]

\* two run_workflow calls are scheduled on one event loop
JobsInit ==
    /\ pc = "jobs"
    /\ state = InitialState(<<>>, FALSE, <<>>, 0, <<>>, "", None)
    /\ obs = NoObs
    /\ store = <<>>
    /\ \E envs \in [JobIds -> JobEnvs], rounds \in [JobIds -> { 1, MaxRoundsBound }] :
          unit = [_workflow_app |-> None, builds |-> 0,
                  jobs |-> [j \in JobIds |->
                      IdleJob(InitialState([i \in 1..MaxUploaded |-> 100 * j + i],
                                  TRUE, <<>>, 0, <<>>, "yolov5s.pt", rounds[j]),
                              envs[j])]]

\* run_workflow of job j runs to its first await
JobStart(j) ==
    /\ unit.jobs[j].pos = "idle"
    /\ LET started == run_workflow(unit._workflow_app, unit.builds)
       IN unit' = [unit EXCEPT !._workflow_app = started.app,
                               !.builds = started.builds,
                               !.jobs[j].pos = "running",
                               !.jobs[j].app = started.app]
    /\ UNCHANGED << pc, state, obs, store >>

\* the graph of job j runs its next node
JobNode(j) ==
    /\ unit.jobs[j].pos = "running"
    /\ unit.jobs[j].pc # "END"
    /\ \E next \in { JobNodeStep(unit.jobs[j].pc, unit.jobs[j].state, unit.jobs[j].env) } :
          unit' = [unit EXCEPT !.jobs[j].pc = next.pc, !.jobs[j].state = next.state]
    /\ UNCHANGED << pc, state, obs, store >>

\* run_workflow of job j returns the final state
JobReturn(j) ==
    /\ unit.jobs[j].pos = "running"
    /\ unit.jobs[j].pc = "END"
    /\ unit' = [unit EXCEPT !.jobs[j].pos = "done"]
    /\ UNCHANGED << pc, state, obs, store >>

JobsNext == \E j \in JobIds : JobStart(j) \/ JobNode(j) \/ JobReturn(j)

JobsSpec == JobsInit /\ [][JobsNext]_vars

\* ---------------------------------------- direct calls of the evaluation
\* the contexts execute is called with: with and without a model path, a
\* holdout set and images to draw one from, in round 1 and later
ExecuteContexts ==
    { [round_number |-> round_number, model_path |-> model_path,
       best_metrics |-> best_metrics, holdout_validation_set |-> holdout_set,
       all_image_paths |-> all_images, rounds_without_improvement |-> 0] :
      round_number \in 1..MaxUnitRound, model_path \in { "", "yolov5s.pt" },
      best_metrics \in { EmptyDict, Metrics(500, 500, 1000, 950, <<>>) },
      holdout_set \in { <<>>, << 1 >> },
      all_images \in { <<>>, [i \in 1..MaxUploaded |-> MaxUploaded + 1 - i] } }

NoExecuteResult ==
    [evaluation_metrics |-> EmptyDict, model_comparison |-> NoComparison,
     calibration_metrics |-> _compute_calibration_metrics(EmptyDict),
     continuation_decision |-> EmptyDecision, holdout_validation_set |-> <<>>,
     validation_set_hash |-> NoHash]

\* a caller is about to evaluate a trained model
ExecuteInit ==
    /\ pc = "execute"
    /\ state = InitialState(<<>>, FALSE, <<>>, 0, <<>>, "", None)
    /\ obs = NoObs
    /\ store = <<>>
    /\ \E context \in ExecuteContexts, predict_raises \in BOOLEAN,
          executor_result \in ExecutorResults :
          unit = [phase |-> "input", context |-> context,
                  predict_raises |-> predict_raises,
                  executor_result |-> executor_result, result |-> NoExecuteResult]

\* EvaluationAgent.execute called directly
CallExecute ==
    /\ unit.phase = "input"
    /\ \E create_raises \in BOOLEAN :
          LET result == execute(unit.context, unit.predict_raises, unit.executor_result)
          IN /\ unit' = [unit EXCEPT !.phase = "executed", !.result = result]
             /\ store' = StoreModelVersion(store, unit.context.round_number,
                             result.model_comparison.is_improved,
                             result.continuation_decision.should_rollback,
                             create_raises)
    /\ UNCHANGED << pc, state, obs >>

ExecuteNext == CallExecute

ExecuteSpec == ExecuteInit /\ [][ExecuteNext]_vars

\* ------------------------------------------------------ curriculum order
\* acquisition_agent.CURRICULUM_DIFFICULTY_GROUPS
CURRICULUM_DIFFICULTY_GROUPS == 3

\* ["easy", "medium", "hard"][difficulty_level], levels counted from 0
DifficultyNames == << "easy", "medium", "hard" >>

\* a pseudo label: the image it belongs to and its quality score in
\* thousandths, None when the label has no quality_score key
CandidateLabel(image, quality_score) ==
    [image |-> image, quality_score |-> quality_score]

\* the sort key x.get("quality_score", 0)
QualityKey(label) == IF label.quality_score = None THEN 0 ELSE label.quality_score

\* sorted(labels, key=..., reverse=True): descending, and stable (labels with
\* equal keys keep their order)
RECURSIVE SortedDescending(_)
SortedDescending(labels) ==
    IF labels = <<>>
    THEN <<>>
    ELSE LET n == Len(labels)
             rest == SortedDescending(SubSeq(labels, 1, n - 1))
             last == labels[n]
             ahead == Cardinality({ i \in 1..Len(rest) :
                                      QualityKey(rest[i]) >= QualityKey(last) })
         IN SubSeq(rest, 1, ahead) \o << last >> \o SubSeq(rest, ahead + 1, Len(rest))

\* variant: difficulty levels dealt out in turn
DifficultyLevelInTurn(i, group_size) == i % CURRICULUM_DIFFICULTY_GROUPS

\* the difficulty level of the label at index i (from 0)
DifficultyLevel(i, group_size) ==
    IF group_size > 0
    THEN Min2(i \div group_size, CURRICULUM_DIFFICULTY_GROUPS - 1)
    ELSE 0

\* AcquisitionAgent._sort_by_curriculum
_sort_by_curriculum(labels) ==
    LET sorted_labels == SortedDescending(labels)
        total == Len(sorted_labels)
        group_size == IF total > 0 THEN total \div CURRICULUM_DIFFICULTY_GROUPS ELSE 1
    IN [k \in 1..total |->
           [image |-> sorted_labels[k].image,
            quality_score |-> sorted_labels[k].quality_score,
            curriculum_difficulty |->
                DifficultyNames[DifficultyLevel(k - 1, group_size) + 1]]]

\* most candidate labels handed to the sort
MaxLabels == 5

\* quality scores of the candidates: missing, low, high
ScoreChoices == { None, 400, 800 }

\* a caller holds up to MaxLabels candidate labels, one per image
CurriculumInit ==
    /\ pc = "curriculum"
    /\ state = InitialState(<<>>, FALSE, <<>>, 0, <<>>, "", None)
    /\ obs = NoObs
    /\ store = <<>>
    /\ \E n \in 0..MaxLabels :
          \E scores \in [1..n -> ScoreChoices] :
             unit = [phase |-> "input",
                     labels |-> [i \in 1..n |-> CandidateLabel(i, scores[i])],
                     result |-> <<>>]

\* AcquisitionAgent._sort_by_curriculum called directly
CallSortByCurriculum ==
    /\ unit.phase = "input"
    /\ unit' = [unit EXCEPT !.phase = "sorted",
                            !.result = _sort_by_curriculum(unit.labels)]
    /\ UNCHANGED << pc, state, obs, store >>

CurriculumNext == CallSortByCurriculum

CurriculumSpec == CurriculumInit /\ [][CurriculumNext]_vars

\* ------------------------------------------------- holdout set, called alone
\* image references of the small lists are drawn from 1..MaxImages
MaxImages == 4

\* lengths of the long lists: 20 images give a holdout of 3, 100 give 15
LongLists == { 20, 100 }

Swapped(s, i, j) ==
    [k \in 1..Len(s) |-> IF k = i THEN s[j] ELSE IF k = j THEN s[i] ELSE s[k]]

Reversed(s) == [k \in 1..Len(s) |-> s[Len(s) + 1 - k]]

Rotated(s) == [k \in 1..Len(s) |-> s[(k % Len(s)) + 1]]

\* a caller holds N >= 1 distinct image references, here in ascending order
HoldoutInit ==
    /\ pc = "holdout"
    /\ state = InitialState(<<>>, FALSE, <<>>, 0, <<>>, "", None)
    /\ obs = NoObs
    /\ store = <<>>
    /\ \E images \in { S \in SUBSET (1..MaxImages) : S # {} } \cup
                     { 1..n : n \in LongLists } :
          unit = [all_images |-> SortedPaths(SetToSeq(images)),
                  calls |-> 0,
                  holdout |-> <<>>,
                  first |-> <<>>,
                  hash |-> None]

\* the caller's list in another order: two references exchanged (short lists),
\* the list reversed, the list rotated by one
Reorder ==
    /\ \E other \in { Swapped(unit.all_images, i, j) :
                        i, j \in 1..Min2(Len(unit.all_images), MaxImages) }
                    \cup { Reversed(unit.all_images), Rotated(unit.all_images) } :
          /\ (Len(unit.all_images) > MaxImages =>
                other \in { Reversed(unit.all_images), Rotated(unit.all_images) })
          /\ other # unit.all_images
          /\ unit' = [unit EXCEPT !.all_images = other]
    /\ UNCHANGED << pc, state, obs, store >>

\* EvaluationAgent._setup_holdout_set and _compute_set_hash called directly;
\* first keeps what the first call returned
CallSetupHoldout ==
    /\ LET holdout_set == _setup_holdout_set(unit.all_images)
       IN unit' = [unit EXCEPT !.calls = 1,
                               !.holdout = holdout_set,
                               !.first = IF unit.calls = 0 THEN holdout_set ELSE @,
                               !.hash = _compute_set_hash(holdout_set)]
    /\ UNCHANGED << pc, state, obs, store >>

HoldoutNext == Reorder \/ CallSetupHoldout

HoldoutSpec == HoldoutInit /\ [][HoldoutNext]_vars

\* ------------------------------------------- quality score of one candidate
\* acquisition_agent.py: HIGH_CONFIDENCE_THRESHOLD = 0.7
HIGH_CONFIDENCE_THRESHOLD == 700

\* min(variance * 4, 1.0) of a single detection taken as 1.0
InconsistencyOfOneFull(confidences) ==
    LET n == Len(confidences)
        total == SumSeq(confidences)
        squares == SumSeq([i \in 1..n |-> (n * confidences[i] - total)
                                          * (n * confidences[i] - total)])
    IN IF n > 1 THEN Min2(4 * squares, n * n * n * 1000000)
       ELSE n * n * n * 1000000

\* min(variance * 4, 1.0) as a number of (n^3 * 10^6)-ths, for n confidences
\* in thousandths: variance = sum((c - avg)^2) / n with avg = sum(c) / n is
\* sum((n*c - total)^2) / (n^3 * 10^6); a single detection has
\* consistency_score = 1.0, that is none
InconsistencyOf(confidences) ==
    LET n == Len(confidences)
        total == SumSeq(confidences)
        squares == SumSeq([i \in 1..n |-> (n * confidences[i] - total)
                                          * (n * confidences[i] - total)])
    IN IF n > 1 THEN Min2(4 * squares, n * n * n * 1000000)
       ELSE 0

\* AcquisitionAgent._calculate_quality_score: round(0.5 * avg_confidence +
\* 0.3 * high_conf_ratio + 0.2 * consistency_score, 4), in ten-thousandths.
\* d.get("confidence", 0.0) is 0 for a detection without the key (None here).
\* The sum is held exactly, as numerator / (500 * n^3), and rounded half to
\* even.
_calculate_quality_score(detections) ==
    IF detections = <<>> THEN 0
    ELSE LET n == Len(detections)
             confidences == [i \in 1..n |->
                                IF detections[i].confidence = None THEN 0
                                ELSE detections[i].confidence]
             total == SumSeq(confidences)
             high_conf_count == Cardinality({ i \in 1..n :
                                    confidences[i] >= HIGH_CONFIDENCE_THRESHOLD })
             denominator == 500 * n * n * n
             numerator == (5 * total + 3000 * high_conf_count) * 500 * n * n
                          + (n * n * n * 1000000 - InconsistencyOf(confidences))
             q == numerator \div denominator
             r == numerator % denominator
         IN IF 2 * r > denominator THEN q + 1
            ELSE IF 2 * r = denominator THEN q + (q % 2)
            ELSE q

\* detections of one image: at most MaxDetections
MaxDetections == 3

\* confidences of the detections: key missing, 0.0, 0.3, 0.7, 1.0
ConfidenceChoices == { None, 0, 300, 700, 1000 }

\* a caller holds the detections of one image
QualityInit ==
    /\ pc = "quality"
    /\ state = InitialState(<<>>, FALSE, <<>>, 0, <<>>, "", None)
    /\ obs = NoObs
    /\ store = <<>>
    /\ \E n \in 0..MaxDetections :
          \E confidences \in [1..n -> ConfidenceChoices] :
             unit = [phase |-> "input",
                     detections |-> [i \in 1..n |-> [confidence |-> confidences[i]]],
                     quality_score |-> None]

\* AcquisitionAgent._calculate_quality_score called directly
CallCalculateQualityScore ==
    /\ unit.phase = "input"
    /\ unit' = [unit EXCEPT !.phase = "scored",
                            !.quality_score = _calculate_quality_score(unit.detections)]
    /\ UNCHANGED << pc, state, obs, store >>

QualityNext == CallCalculateQualityScore

QualitySpec == QualityInit /\ [][QualityNext]_vars

\* ------------------------------------- acquisition: filter, diversity, sort
\* acquisition_agent.py: PSEUDO_LABEL_CONFIDENCE_THRESHOLD = 0.5
PSEUDO_LABEL_CONFIDENCE_THRESHOLD == 500
MIN_DETECTIONS_THRESHOLD == 1

\* AcquisitionAgent._filter_and_score_pseudo_labels, the filtered list: the
\* detections at or above the threshold are kept, a label left with fewer
\* than MIN_DETECTIONS_THRESHOLD of them is skipped, the others are scored
_filter_and_score_pseudo_labels(labels, confidence_threshold) ==
    LET high_conf_detections(label) ==
            SelectSeq(label.detections,
                      LAMBDA det : (IF det.confidence = None THEN 0
                                    ELSE det.confidence) >= confidence_threshold)
        scored == [i \in 1..Len(labels) |->
                      [image |-> labels[i].image,
                       detections |-> high_conf_detections(labels[i]),
                       quality_score |->
                           _calculate_quality_score(high_conf_detections(labels[i]))]]
    IN SelectSeq(scored,
                 LAMBDA label : Len(label.detections) >= MIN_DETECTIONS_THRESHOLD)

\* AcquisitionAgent._compute_feature_hash: the md5 of the sorted
\* "class_id:x:y" features, held as its preimage; det.get(..., 0) gives 0 for
\* the keys a detection does not have
_compute_feature_hash(label) == [i \in 1..Len(label.detections) |-> << 0, 0, 0 >>]

\* AcquisitionAgent._ensure_diversity: at most max_similar labels per hash
\* bucket, in the order given; the log line after the loop divides by
\* len(labels), which raises ZeroDivisionError for an empty list
_ensure_diversity(labels, max_similar) ==
    LET earlier(k) == { j \in 1..(k - 1) :
                          _compute_feature_hash(labels[j])
                              = _compute_feature_hash(labels[k]) }
        kept == { k \in 1..Len(labels) : Cardinality(earlier(k)) < max_similar }
    IN [raised |-> Len(labels) = 0,
        labels |-> SelectSeq([k \in 1..Len(labels) |->
                                 [label |-> labels[k], keep |-> k \in kept]],
                             LAMBDA e : e.keep)]

\* AcquisitionAgent.execute from the crawl's result on: pseudo_labels are the
\* labels of the acquired images that have detections; an exception of a
\* step is logged and re-raised
AcquisitionExecute(acquired_images, pseudo_labels) ==
    IF acquired_images = <<>>
    THEN [raised |-> FALSE, pseudo_labels |-> <<>>, dataset_ready |-> FALSE]
    ELSE LET filtered_labels ==
                 _filter_and_score_pseudo_labels(pseudo_labels,
                                                 PSEUDO_LABEL_CONFIDENCE_THRESHOLD)
             diverse == _ensure_diversity(filtered_labels, 3)
             curriculum_sorted_labels ==
                 _sort_by_curriculum([k \in 1..Len(diverse.labels) |->
                                         diverse.labels[k].label])
         IN IF diverse.raised
            THEN [raised |-> TRUE, pseudo_labels |-> <<>>, dataset_ready |-> FALSE]
            ELSE [raised |-> FALSE, pseudo_labels |-> curriculum_sorted_labels,
                  dataset_ready |-> Len(curriculum_sorted_labels) > 0]

\* images one crawl acquires
MaxAcquired == 3

\* the detections the model finds in one acquired image: one or two, each
\* below (0.3) or above (0.7) the confidence threshold
DetectionChoices ==
    { << [confidence |-> a] >> : a \in { 300, 700 } } \cup
    { << [confidence |-> a], [confidence |-> b] >> : a, b \in { 300, 700 } }

\* the crawl has returned its images and the pseudo-labelling has run
AcquisitionInit ==
    /\ pc = "acquisition"
    /\ state = InitialState(<<>>, FALSE, <<>>, 0, <<>>, "", None)
    /\ obs = NoObs
    /\ store = <<>>
    /\ \E n \in 0..MaxAcquired :
          \E detections \in [1..n -> DetectionChoices] :
             unit = [phase |-> "input",
                     acquired_images |-> [i \in 1..n |-> i],
                     pseudo_labels |-> [i \in 1..n |->
                                           [image |-> i, detections |-> detections[i]]],
                     result |-> [raised |-> FALSE, pseudo_labels |-> <<>>,
                                 dataset_ready |-> FALSE]]

\* the rest of AcquisitionAgent.execute runs
CallAcquisitionExecute ==
    /\ unit.phase = "input"
    /\ unit' = [unit EXCEPT !.phase = "done",
                            !.result = AcquisitionExecute(unit.acquired_images,
                                                          unit.pseudo_labels)]
    /\ UNCHANGED << pc, state, obs, store >>

AcquisitionNext == CallAcquisitionExecute

AcquisitionSpec == AcquisitionInit /\ [][AcquisitionNext]_vars

\* ------------------------------------------------- JobOrchestrator.run
\* the stages of run, in the order of their status updates
OrchestratorStages == << "INFERENCE", "ANALYSIS", "ACQUISITION", "TRAINING" >>

\* JobOrchestrator._update_status: the update is emitted; an exception of the
\* database client is logged and swallowed, and then nothing is recorded
_update_status(u, status, update_raises) ==
    [u EXCEPT !.emitted = Append(@, status),
              !.recorded = IF update_raises THEN @ ELSE Append(@, status)]

\* a JobOrchestrator has been constructed for a job; run has not been called
OrchestratorInit ==
    /\ pc = "orchestrator"
    /\ state = InitialState(<<>>, FALSE, <<>>, 0, <<>>, "", None)
    /\ obs = NoObs
    /\ store = <<>>
    /\ unit = [pos |-> "before", stage |-> 1, dataset_ready |-> FALSE,
               emitted |-> <<>>, recorded |-> <<>>]

\* run reaches the status update of its next stage and awaits the agent
EnterStage ==
    /\ unit.pos = "before"
    /\ \E update_raises \in BOOLEAN :
          unit' = [_update_status(unit, OrchestratorStages[unit.stage], update_raises)
                      EXCEPT !.pos = "in"]
    /\ UNCHANGED << pc, state, obs, store >>

\* variant: the except clause re-raises without a status update
StageRaisesUnreported ==
    /\ unit.pos = "in"
    /\ unit' = [unit EXCEPT !.pos = "raised"]
    /\ UNCHANGED << pc, state, obs, store >>

\* the agent of the stage raises: run's except clause emits FAILED and
\* re-raises
StageRaises ==
    /\ unit.pos = "in"
    /\ \E update_raises \in BOOLEAN :
          unit' = [_update_status(unit, "FAILED", update_raises)
                      EXCEPT !.pos = "raised"]
    /\ UNCHANGED << pc, state, obs, store >>

\* the agent of the stage returns; after ACQUISITION without dataset_ready,
\* and after TRAINING, run emits COMPLETE and returns the final result
StageReturns ==
    /\ unit.pos = "in"
    /\ \E dataset_ready \in BOOLEAN, update_raises \in BOOLEAN :
          LET acquired == OrchestratorStages[unit.stage] = "ACQUISITION"
              trained == OrchestratorStages[unit.stage] = "TRAINING"
              after == [unit EXCEPT !.dataset_ready =
                                        IF acquired THEN dataset_ready ELSE @]
          IN /\ (~acquired => ~dataset_ready)
             /\ ((acquired /\ ~dataset_ready) \/ trained => 
                   unit' = [_update_status(after, "COMPLETE", update_raises)
                               EXCEPT !.pos = "returned"])
             /\ (~((acquired /\ ~dataset_ready) \/ trained) =>
                   /\ ~update_raises
                   /\ unit' = [after EXCEPT !.pos = "before", !.stage = @ + 1])
    /\ UNCHANGED << pc, state, obs, store >>

OrchestratorNext == EnterStage \/ StageRaises \/ StageReturns

OrchestratorSpec == OrchestratorInit /\ [][OrchestratorNext]_vars

\* ================================================================ properties
\* C1: in a round whose guardian report says should_rollback, the edge taken
\* after evaluation is finalize, never the loop-back to initialize_round,
\* whatever the evaluation agent's own decision is.
C1_RollbackForcesFinalize ==
    obs.guardian_rollback => pc \in { "finalize", "END" }

\* C2: training is triggered in a round only when the Data Quality Gate
\* admits the round's candidate dataset (the state's pseudo_labels).
C2_TrainingOnlyAfterGate ==
    obs.training_triggered => check(state.pseudo_labels, <<>>).passed

\* C3: once a round is initialised, round_number <= max_rounds (5 when
\* unset) in every reachable state, from every accepted initial state.
C3_RoundWithinMax ==
    state.round_number # None => state.round_number <= GetMaxRounds(state)

C5_LoopBackIff ==
    [][ /\ pc = "evaluation" =>
             /\ pc' \in { "initialize_round", "finalize" }
             /\ pc' = "initialize_round" <=>
                   /\ ~state'.continuation_decision.should_rollback
                   /\ state'.continuation_decision.should_continue
                   /\ state'.round_number < state'.max_rounds
        /\ should_continue_loop(
               [state EXCEPT !.continuation_decision = EmptyDecision]) = "finalize"
      ]_vars

\* an evaluated round after which the graph loops back
C5_Witness ==
    /\ pc = "initialize_round"
    /\ obs.evaluated
    /\ state.continuation_decision.should_continue
    /\ state.round_number < state.max_rounds

\* C6: the first initialisation sets round_number to 1, every loop-back
\* adds exactly 1, no other node changes it, and it never decreases.
C6_RoundNumberSteps ==
    [][ /\ (pc = "initialize_round" /\ state.round_number = None)
             => state'.round_number = 1
        /\ (pc = "initialize_round" /\ state.round_number # None)
             => state'.round_number = state.round_number + 1
        /\ pc # "initialize_round"
             => state'.round_number = state.round_number
        /\ state'.round_number >= state.round_number
      ]_vars

\* a second round that has reached its evaluation
C6_Witness ==
    /\ state.round_number = 2
    /\ obs.evaluations = 2
    /\ obs.evaluated

\* C7: the report of check_model_health has should_rollback exactly when one
\* of its five checks is critical and round_number > 1.
C7_RollbackIffCriticalAfterRound1 ==
    unit.phase \in { "health", "decided" } =>
        /\ Len(unit.report.checks) = 5
        /\ unit.report.should_rollback <=>
              /\ \E i \in 1..Len(unit.report.checks) :
                     unit.report.checks[i].severity = "critical"
              /\ unit.round_number > 1

\* a critical check in round 1, reported without a rollback verdict
C7_Witness ==
    /\ unit.phase = "health"
    /\ unit.round_number = 1
    /\ \E i \in 1..Len(unit.report.checks) :
           unit.report.checks[i].severity = "critical"
    /\ ~unit.report.should_rollback

\* C8: the evaluation agent's decision for round_number = 1 never has
\* should_rollback or the action "rollback", whatever metrics it is given.
C8_NoRollbackDecisionInRound1 ==
    (unit.phase = "decided" /\ unit.round_number = 1) =>
        /\ ~unit.decision.should_rollback
        /\ unit.decision.action # "rollback"

\* C9: an evaluated round sets rounds_without_improvement to 0 only if it is
\* the first round or its mAP50 is at least 0.005 above the previous best;
\* every other evaluated round adds exactly 1.
C9_ResetOnlyOnImprovement ==
    [][ (pc = "evaluation" /\ obs'.evaluated) =>
            LET first == state.round_number = 1
                gain == state'.evaluation_metrics.mAP50 - state.best_metrics.mAP50
                improved == first \/ gain >= MAP50_IMPROVEMENT_THRESHOLD
            IN /\ state'.rounds_without_improvement = 0 => improved
               /\ ~improved => state'.rounds_without_improvement
                                  = state.rounds_without_improvement + 1
      ]_vars

\* C10: once the state holds a non-empty holdout set, no step changes
\* holdout_validation_set or validation_set_hash.
C10_HoldoutFrozen ==
    [][ state.holdout_validation_set # <<>> =>
            /\ state'.holdout_validation_set = state.holdout_validation_set
            /\ state'.validation_set_hash = state.validation_set_hash
      ]_vars

\* a later round, with newly acquired images, evaluated against the holdout
\* set of round 1
C10_Witness ==
    /\ state.round_number = 2
    /\ obs.evaluated
    /\ state.acquired_images # <<>>
    /\ state.holdout_validation_set # <<>>
    /\ state.validation_set_hash = _compute_set_hash(state.holdout_validation_set)

\* C11: when the holdout set handed to evaluation does not hash to the hash
\* recorded for the job, the evaluation step records an error, ends the job
\* and leaves the recorded set and hash as they were.
C11_HashMismatchIsFatal ==
    [][ ( /\ pc = "evaluation"
          /\ state.holdout_validation_set # <<>>
          /\ state.validation_set_hash
                 # _compute_set_hash(state.holdout_validation_set) )
        => /\ Len(state'.errors) > Len(state.errors)
           /\ pc' = "finalize"
           /\ state'.holdout_validation_set = state.holdout_validation_set
           /\ state'.validation_set_hash = state.validation_set_hash
      ]_vars

\* C12: a round whose training failed ends at finalize; the graph does not
\* loop back to another round from it.
C12_TrainingFailureFinalizes ==
    [][ (pc = "evaluation" /\ state.training_status = "failed")
            => pc' = "finalize" ]_vars

\* C13: when the job has ended, the state holds a continuation decision
\* with a non-empty reason, whichever path led to finalize.
C13_FinalDecisionHasReason ==
    pc = "END" =>
        /\ ~state.continuation_decision.empty
        /\ state.continuation_decision.reason # ""

\* C14: the gate's result has the five checks in order, passed holds exactly
\* when every check passed, and failures is exactly the checks that did not.
C14_GateAllOrNothing ==
    unit.phase \in { "checked", "reported" } =>
        LET r == unit.result IN
        /\ [i \in 1..Len(r.checks) |-> r.checks[i].name]
              = << "sample_count", "quality_score", "class_balance", "diversity",
                   "duplicates" >>
        /\ r.passed <=> \A i \in 1..Len(r.checks) : r.checks[i].passed
        /\ r.failures = SelectSeq(r.checks, LAMBDA c : ~c.passed)

\* a dataset rejected for exactly one reason: enough samples, but the new
\* data is too close to the existing data
C14_Witness ==
    /\ unit.phase = "checked"
    /\ ~unit.result.passed
    /\ Len(unit.result.failures) = 1
    /\ unit.result.failures[1].name = "diversity"

\* C15: a loop-back empties acquired_images, pseudo_labels, search_keywords,
\* evaluation_metrics and continuation_decision, zeroes crawled_count, and
\* changes no other field but round_number; in particular best_metrics,
\* best_model_path, holdout_validation_set, validation_set_hash,
\* rounds_without_improvement and max_rounds stay as they were.
C15_LoopBackResetsPerRoundOnly ==
    [][ (pc = "initialize_round" /\ state.round_number # None) =>
          /\ state'.acquired_images = <<>>
          /\ state'.pseudo_labels = <<>>
          /\ state'.crawled_count = 0
          /\ state'.search_keywords = <<>>
          /\ state'.evaluation_metrics = EmptyDict
          /\ state'.continuation_decision = EmptyDecision
          /\ \A f \in { "best_metrics", "best_model_path", "holdout_validation_set",
                        "validation_set_hash", "rounds_without_improvement",
                        "max_rounds" } : state'[f] = state[f]
          /\ \A f \in DOMAIN state \ { "round_number", "acquired_images",
                                      "pseudo_labels", "crawled_count",
                                      "search_keywords", "evaluation_metrics",
                                      "continuation_decision" } :
                state'[f] = state[f]
      ]_vars

\* the start of a third round: the loop-back has emptied the working fields
\* of a second round that crawled, trained and did not improve
C15_Witness ==
    /\ pc = "perception"
    /\ state.round_number = 3
    /\ state.acquired_images = <<>>
    /\ state.crawled_count = 0
    /\ Len(state.image_urls) > MaxUploaded
    /\ state.best_model_path # ""
    /\ state.holdout_validation_set # <<>>
    /\ state.rounds_without_improvement = 1

\* C16: the perception step is followed by hunter exactly when the analysis
\* of that step succeeded (it appended no error) and wrote at least one
\* search keyword; otherwise it is followed by finalize.
C16_AcquireIffAnalysisProducedKeywords ==
    [][ pc = "perception" =>
          /\ pc' \in { "hunter", "finalize" }
          /\ pc' = "hunter" <=> /\ state'.errors = state.errors
                                /\ state'.search_keywords # <<>>
      ]_vars

\* C17: the hunter step is followed by evolution exactly when the crawl of
\* that step acquired at least one image; otherwise it is followed by
\* finalize.
C17_TrainIffAcquiredThisRound ==
    [][ pc = "hunter" =>
          /\ pc' \in { "evolution", "finalize" }
          /\ pc' = "evolution" <=> /\ state'.errors = state.errors
                                   /\ Len(state'.acquired_images) > 0
      ]_vars

\* C18: a perception step whose analysis fails appends an error and is
\* followed by finalize.
C18_AnalysisFailureFinalizes ==
    [][ (pc = "perception" /\ state'.errors # state.errors) =>
          /\ Len(state'.errors) = Len(state.errors) + 1
          /\ pc' = "finalize"
      ]_vars

\* C19: once the job has stored a model version, at most one stored version
\* has is_best = true and exactly one has is_active = true.
C19_OneBestOneActive ==
    store # <<>> =>
        /\ Cardinality({ id \in 1..Len(store) : store[id].is_best }) <= 1
        /\ Cardinality({ id \in 1..Len(store) : store[id].is_active }) = 1

\* C20: when rollback_to_best has deactivated the current version and the
\* activation of the best version then fails, the result it returns differs
\* from the result of every rollback that failed elsewhere (no best version,
\* the lookup raising, the deactivation raising) on the same store.
C20_ActivationFailureIsDistinct ==
    ( /\ unit.phase = "rolled_back"
      /\ unit.failure = "activate"
      /\ unit.current_version_id # None
      /\ unit.best_id # None ) =>
        /\ ~unit.result.success
        /\ \A failure \in RollbackFailures \ { "activate" }, message \in StoreErrors,
              best_id \in { None } \cup get_best_model_version(unit.before) :
              LET other == rollback_to_best(unit.before, unit.current_version_id,
                                            best_id, failure, message).result
              IN ~other.success => other # unit.result

\* C21: when the store holds no version marked best, rollback_to_best reports
\* failure with a reason and leaves every stored version as it was.
C21_NoBestLeavesStoreAlone ==
    (unit.phase = "rolled_back" /\ BestVersionIds(unit.before) = {}) =>
        /\ ~unit.result.success
        /\ unit.result.reason # ""
        /\ store = unit.before

\* a rollback asked for an active current version when nothing is marked
\* best: it is refused and the current version stays active
C21_Witness ==
    /\ unit.phase = "rolled_back"
    /\ BestVersionIds(unit.before) = {}
    /\ unit.failure = "none"
    /\ unit.current_version_id # None
    /\ unit.before[unit.current_version_id].is_active
    /\ unit.result.reason = "No best model version found"
    /\ store[unit.current_version_id].is_active

\* C22: a step of one job writes no variable the other job has read or
\* written (once the other job has started, the module global stays as it
\* is), and a job that has returned holds the final state it reaches when it
\* runs alone.
C22_JobsShareNothing ==
    [][ \A j \in JobIds :
          /\ (unit'.jobs[j] # unit.jobs[j] /\ unit.jobs[3 - j].pos # "idle")
                => unit'._workflow_app = unit._workflow_app
          /\ unit'.jobs[j].pos = "done"
                => unit'.jobs[j].state
                      = RunAlone("initialize_round", unit.jobs[j].initial,
                                 unit.jobs[j].env)
      ]_vars

\* C23: the report's overall_severity is critical if a check is critical,
\* else warning if a check is warning, else healthy, and the ranking gives the
\* same answer for the checks taken in any order.
C23_SeverityRanking ==
    unit.phase \in { "health", "decided" } =>
        LET checks == unit.report.checks
            severities == { checks[i].severity : i \in 1..Len(checks) }
            orders == { p \in [1..Len(checks) -> 1..Len(checks)] :
                          \A i, j \in 1..Len(checks) : i # j => p[i] # p[j] }
        IN /\ unit.report.overall_severity =
                 IF "critical" \in severities THEN "critical"
                 ELSE IF "warning" \in severities THEN "warning"
                 ELSE "healthy"
           /\ \A p \in orders :
                 OverallSeverity([i \in 1..Len(checks) |-> checks[p[i]]])
                    = unit.report.overall_severity

\* a report in which a warning check comes before a critical one
C23_Witness ==
    /\ unit.phase = "health"
    /\ \E i, j \in 1..Len(unit.report.checks) :
          /\ i < j
          /\ unit.report.checks[i].severity = "warning"
          /\ unit.report.checks[j].severity = "critical"
    /\ unit.report.overall_severity = "critical"

\* C24: an evaluation whose holdout set is empty, whose model path is empty
\* or whose prediction executor fails returns the all-zero metrics record and
\* a continuation decision with an action and a reason.
C24_EmptyInputsGiveZeroMetrics ==
    ( /\ unit.phase = "executed"
      /\ \/ unit.result.holdout_validation_set = <<>>
         \/ unit.context.model_path = ""
         \/ unit.predict_raises ) =>
        /\ unit.result.evaluation_metrics = _empty_metrics
        /\ ~unit.result.continuation_decision.empty
        /\ unit.result.continuation_decision.action \in { "continue", "stop", "rollback" }
        /\ unit.result.continuation_decision.reason # ""

\* the executor fails on a model and a holdout set that are both present,
\* in a round that has a best model to compare with
C24_Witness ==
    /\ unit.phase = "executed"
    /\ unit.predict_raises
    /\ unit.context.model_path # ""
    /\ unit.result.holdout_validation_set # <<>>
    /\ unit.executor_result.mAP50 > 0
    /\ ~unit.context.best_metrics.empty
    /\ unit.result.evaluation_metrics = _empty_metrics
    /\ ~unit.result.continuation_decision.empty

\* C25: when one or two classes are affected by forgetting and nothing else
\* is critical, the guardian's forgetting check is a warning, and neither the
\* guardian's report nor the evaluation's continuation decision asks for a
\* rollback.
C25_MinorForgettingIsWarning ==
    ( /\ unit.phase = "decided"
      /\ _detect_catastrophic_forgetting(unit.current_metrics.per_class,
             unit.best_metrics.per_class).num_affected \in 1..2
      /\ \A i \in 1..Len(unit.report.checks) :
            unit.report.checks[i].severity # "critical"
      /\ _compare_with_best(unit.current_metrics, unit.best_metrics).severity
            # "critical" ) =>
        /\ \E i \in 1..Len(unit.report.checks) :
              /\ unit.report.checks[i].name = "catastrophic_forgetting"
              /\ unit.report.checks[i].severity = "warning"
        /\ ~unit.report.should_rollback
        /\ ~unit.decision.should_rollback

\* C26: in round 1 with no best metrics supplied, the comparison is a first
\* round judged improved and the decision's action is "continue", whatever
\* the round's own metrics are.
C26_FirstRoundContinues ==
    ( /\ unit.phase = "decided"
      /\ unit.best_metrics = EmptyDict
      /\ unit.round_number = 1
      /\ unit.rounds_without_improvement = 0 ) =>
        /\ _compare_with_best(unit.current_metrics, unit.best_metrics).is_first_round
        /\ _compare_with_best(unit.current_metrics, unit.best_metrics).is_improved
        /\ unit.decision.action = "continue"

\* C27: the sorted list holds every input label exactly once, in descending
\* order of quality score; every label carries one of easy, medium, hard, and
\* the difficulties never go back along the list.
C27_CurriculumOrder ==
    unit.phase = "sorted" =>
        LET n == Len(unit.labels)
            r == unit.result
            rank == [d \in { "easy", "medium", "hard" } |->
                        IF d = "easy" THEN 1 ELSE IF d = "medium" THEN 2 ELSE 3]
        IN /\ Len(r) = n
           /\ { r[k].image : k \in 1..n } = 1..n
           /\ \A k \in 1..n : r[k].quality_score = unit.labels[r[k].image].quality_score
           /\ \A k \in 1..n : r[k].curriculum_difficulty \in { "easy", "medium", "hard" }
           /\ \A j, k \in 1..n : j < k =>
                 /\ QualityKey(r[j]) >= QualityKey(r[k])
                 /\ rank[r[j].curriculum_difficulty] <= rank[r[k].curriculum_difficulty]

\* five labels given in ascending order of quality come back reversed, in
\* three difficulty groups
C27_Witness ==
    /\ unit.phase = "sorted"
    /\ Len(unit.labels) = 5
    /\ QualityKey(unit.labels[1]) < QualityKey(unit.labels[5])
    /\ unit.result[1].image # 1
    /\ unit.result[1].curriculum_difficulty = "easy"
    /\ unit.result[2].curriculum_difficulty = "medium"
    /\ unit.result[5].curriculum_difficulty = "hard"

\* C28: of N >= 1 labels, floor(N/3) are easy, floor(N/3) are medium and the
\* remaining N - 2*floor(N/3) are hard.
C28_CurriculumGroupSizes ==
    (unit.phase = "sorted" /\ Len(unit.labels) >= 1) =>
        LET n == Len(unit.labels)
            count(d) == Cardinality({ k \in 1..n :
                                        unit.result[k].curriculum_difficulty = d })
        IN /\ count("easy") = n \div 3
           /\ count("medium") = n \div 3
           /\ count("hard") = n - 2 * (n \div 3)

\* C29: for N >= 1 distinct image references, _setup_holdout_set returns the
\* same subset for every ordering of the list; the subset has exactly
\* max(1, floor(0.15 * N)) distinct members, all from the list (15 for
\* N = 100); and _compute_set_hash of the subset does not depend on the order
\* of its members.
C29_HoldoutDeterministic ==
    unit.calls = 1 =>
        LET n == Len(unit.all_images)
            h == unit.holdout
        IN /\ h = unit.first
           /\ Len(h) = Max2(1, (15 * n) \div 100)
           /\ (n = 100 => Len(h) = 15)
           /\ \A j, k \in 1..Len(h) : j # k => h[j] # h[k]
           /\ \A k \in 1..Len(h) : \E i \in 1..n : unit.all_images[i] = h[k]
           /\ \A j, k \in 1..Len(h) :
                 _compute_set_hash(Swapped(h, j, k)) = unit.hash
           /\ _compute_set_hash(Reversed(h)) = unit.hash

\* 100 images, asked again in another order than the first time: 15 chosen,
\* not given in sorted order
C29_Witness ==
    /\ unit.calls = 1
    /\ Len(unit.all_images) = 100
    /\ unit.all_images # SortedPaths(unit.all_images)
    /\ unit.holdout = _setup_holdout_set(unit.all_images)
    /\ Len(unit.holdout) = 15
    /\ unit.holdout # SortedPaths(unit.holdout)

\* C30: for detections with confidences in [0,1] the quality score lies in
\* [0,1]; it is 0 for the empty list; for a single detection it is the score
\* with consistency 1: 0.5 * c + 0.3 * (1 if c >= 0.7 else 0) + 0.2.
C30_QualityScoreBounds ==
    unit.phase = "scored" =>
        LET n == Len(unit.detections)
            c == IF unit.detections[1].confidence = None THEN 0
                 ELSE unit.detections[1].confidence
        IN /\ unit.quality_score \in 0..10000
           /\ (n = 0 => unit.quality_score = 0)
           /\ (n = 1 => unit.quality_score =
                           5 * c + (IF c >= 700 THEN 3000 ELSE 0) + 2000)

\* one detection of confidence 0.3 scores 0.35: 0.15 + 0 + 0.2
C30_Witness ==
    /\ unit.phase = "scored"
    /\ Len(unit.detections) = 1
    /\ unit.detections[1].confidence = 300
    /\ unit.quality_score = 3500

\* C31: when the evaluation stage raises, the state receives the decision
\* {should_continue: false, should_rollback: false, action: "stop"} with the
\* failure as its reason, the error is appended to errors, best_metrics,
\* rounds_without_improvement and the holdout set stay as they were, and the
\* edge taken is finalize.
C31_EvaluationFailureStops ==
    [][ ( /\ pc = "evaluation"
          /\ obs'.evaluations = obs.evaluations + 1
          /\ ~obs'.evaluated ) =>
            /\ state'.continuation_decision =
                   Decision(FALSE, FALSE, "stop", "Evaluation failed")
            /\ state'.errors = Append(state.errors, "evaluation node failed")
            /\ state'.best_metrics = state.best_metrics
            /\ state'.rounds_without_improvement = state.rounds_without_improvement
            /\ state'.holdout_validation_set = state.holdout_validation_set
            /\ pc' = "finalize" ]_vars

\* the evaluation of round 2 raised after round 1 had set a best model: the
\* job is at finalize with the stop decision and the best metrics of round 1
C31_Witness ==
    /\ pc = "finalize"
    /\ obs.evaluations = 2
    /\ ~obs.evaluated
    /\ state.round_number = 2
    /\ state.continuation_decision.action = "stop"
    /\ state.continuation_decision.reason = "Evaluation failed"
    /\ state.best_metrics # EmptyDict
    /\ state.holdout_validation_set # <<>>
    /\ "evaluation node failed" \in { state.errors[i] : i \in 1..Len(state.errors) }

\* C32: an evaluation that starts with rounds_without_improvement >= 2 ends
\* with should_continue = false and the edge to finalize, also when the
\* round's mAP50 improved; rounds_without_improvement never exceeds 3 in a
\* job started from a fresh state.
C32_StaleRoundsStop ==
    [][ /\ state'.rounds_without_improvement <= 3
        /\ ( ( /\ pc = "evaluation"
               /\ obs'.evaluations = obs.evaluations + 1
               /\ state.rounds_without_improvement >= 2 ) =>
                 /\ ~state'.continuation_decision.should_continue
                 /\ pc' = "finalize" ) ]_vars

\* round 4 improved on the best model after rounds 2 and 3 had not: the job
\* stops for lack of improvement, one round before its max_rounds
C32_Witness ==
    /\ pc = "finalize"
    /\ obs.evaluated
    /\ state.round_number = 4
    /\ state.max_rounds > 4
    /\ state.model_comparison.is_improved
    /\ state.rounds_without_improvement = 0
    /\ state.continuation_decision.reason = "No improvement"
    /\ ~state.continuation_decision.should_continue

\* C33: over the rounds of a job best_metrics.mAP50 never decreases;
\* best_metrics and best_model_path change only in an evaluation judged
\* improved, which writes both (the round's metrics and the round's model
\* path); an evaluation not judged improved, or one that fails, leaves both.
C33_BestOnlyImproves ==
    [][ /\ state'.best_metrics.mAP50 >= state.best_metrics.mAP50
        /\ ( ( \/ state'.best_metrics # state.best_metrics
               \/ state'.best_model_path # state.best_model_path ) =>
                 /\ pc = "evaluation"
                 /\ obs'.evaluated
                 /\ state'.model_comparison.is_improved
                 /\ state'.best_metrics = state'.evaluation_metrics
                 /\ state'.best_model_path = state.model_path )
        /\ ( ( /\ pc = "evaluation"
               /\ obs'.evaluations = obs.evaluations + 1
               /\ (~obs'.evaluated \/ ~state'.model_comparison.is_improved) ) =>
                 /\ state'.best_metrics = state.best_metrics
                 /\ state'.best_model_path = state.best_model_path ) ]_vars

\* round 2 was judged improved and raised the best mAP50 from 0.500 to
\* 0.505; round 3 was evaluated, was not judged improved and left it there
C33_Witness ==
    /\ state.round_number = 3
    /\ obs.evaluations = 3
    /\ obs.evaluated
    /\ ~state.model_comparison.is_improved
    /\ state.best_metrics.mAP50 = 505
    /\ state.evaluation_metrics.mAP50 < 505
    /\ state.best_model_path # ""

\* C34: the all-zero metrics of a skipped validation run (no model path) are
\* never adopted as best_metrics and never reset rounds_without_improvement
\* to 0.
C34_FallbackNeverBest ==
    [][ ( /\ pc = "evaluation"
          /\ state.model_path = ""
          /\ obs'.evaluations = obs.evaluations + 1
          /\ obs'.evaluated ) =>
            /\ state'.evaluation_metrics = _empty_metrics
            /\ state'.best_metrics = state.best_metrics
            /\ state'.rounds_without_improvement
                   = state.rounds_without_improvement + 1 ]_vars

C36_ErrorsAppendOnly ==
    [][ /\ Len(state'.errors) >= Len(state.errors)
        /\ SubSeq(state'.errors, 1, Len(state.errors)) = state.errors ]_vars

\* a job of two rounds has ended; the training failure of round 1 and the
\* evaluation failure of round 2 are both in the final errors, in that order
C36_Witness ==
    /\ pc = "END"
    /\ state.round_number = 2
    /\ Len(state.errors) = 2
    /\ state.errors[1] = "training task failed"
    /\ state.errors[2] = "evaluation node failed"

\* C37: finalize_node sets training_status to "completed" on every path, also
\* when the training failed, was skipped or never ran, and changes no other
\* field of the state.
C37_FinalizeOnlySetsStatus ==
    [][ pc = "finalize" =>
          /\ state'.training_status = "completed"
          /\ state' = [state EXCEPT !.training_status = "completed"] ]_vars

\* the job has been finalized after a round whose training task failed: the
\* failure is in errors and training_status says completed
C37_Witness ==
    /\ pc = "END"
    /\ obs.finalizes = 1
    /\ state.training_status = "completed"
    /\ \E i \in 1..Len(state.errors) : state.errors[i] = "training task failed"

\* C38: JobOrchestrator.run emits INFERENCE, ANALYSIS, ACQUISITION in that
\* order, then TRAINING only if the acquired dataset is ready; a run that has
\* ended has emitted exactly one terminal status, COMPLETE or FAILED, as its
\* last status, FAILED exactly when a stage raised; a run that has not ended
\* has emitted no terminal status.
C38_StatusOrder ==
        LET e == unit.emitted
            Terminal == { "COMPLETE", "FAILED" }
            ended == unit.pos \in { "returned", "raised" }
        IN /\ \A i \in 1..Len(e) :
                 e[i] \notin Terminal => (i <= 4 /\ e[i] = OrchestratorStages[i])
           /\ (\E i \in 1..Len(e) : e[i] = "TRAINING") => unit.dataset_ready
           /\ \A i \in 1..Len(e) : e[i] \in Terminal => (i = Len(e) /\ ended)
           /\ ended => /\ Len(e) >= 2
                       /\ e[Len(e)] \in Terminal
                       /\ e[Len(e)] = "FAILED" <=> unit.pos = "raised"

\* a run whose acquisition returned without a ready dataset: COMPLETE follows
\* ACQUISITION directly, TRAINING was never emitted, and the database missed
\* one of the updates
C38_Witness ==
    /\ unit.pos = "returned"
    /\ unit.emitted = << "INFERENCE", "ANALYSIS", "ACQUISITION", "COMPLETE" >>
    /\ ~unit.dataset_ready
    /\ Len(unit.recorded) = 3

\* C39: when the pseudo-labels of every acquired image are filtered out (no
\* detection reaches the confidence threshold), the acquisition pipeline
\* returns an empty label list with dataset_ready = false and does not raise.
C39_AllFilteredReturnsEmpty ==
    ( /\ unit.phase = "done"
      /\ unit.acquired_images # <<>>
      /\ _filter_and_score_pseudo_labels(unit.pseudo_labels,
             PSEUDO_LABEL_CONFIDENCE_THRESHOLD) = <<>> ) =>
        /\ ~unit.result.raised
        /\ unit.result.pseudo_labels = <<>>
        /\ ~unit.result.dataset_ready

=============================================================================
